---- MODULE Spec2Model ----
(***************************************************************************)
(* A model of the figma-i18n-mapper pipeline: the batched key generator    *)
(* (lib/utils/openai.ts), the document tree extractor (lib/utils/figma.ts) *)
(* and the noise filter (lib/utils/text-filters.ts).                       *)
(*                                                                         *)
(* A JavaScript string is a sequence of one-character atoms, so that       *)
(* split, join, trim, substring and includes are computed, not assumed.    *)
(* A JSON value is a tagged record: a string leaf [t |-> "str"], a nested  *)
(* object [t |-> "obj"] holding a function from keys to values, or the     *)
(* value undefined [t |-> "undef"].                                        *)
(***************************************************************************)
EXTENDS Integers, Sequences, FiniteSets, TLC

VARIABLES
    \* ---- generateKeysInBatches: arguments
    nodes,                  \* FigmaTextNode[]
    existingKeys,           \* string[] (membership is all the code uses)
    batchSize,              \* number
    \* ---- generateKeysInBatches: locals
    gpc,                    \* position: split, loop, await1, await2, returned, failed
    i,                      \* index of the splitting loop
    spin,                   \* parity of the splitting iterations beyond MaxBatches
    batches,                \* FigmaTextNode[][]
    bi,                     \* position of the for-of loop over batches (1-based)
    results,                \* I18nJson[]
    totalPromptTokens,
    totalCompletionTokens,
    totalTokens,
    allExistingKeys,        \* Set<string>
    parsed,                 \* the first-pass result while the retry is awaited
    duplicates,             \* its colliding key-paths
    ret,                    \* the value returned, NoReturn before
    err,                    \* the message of the error raised, NoError before
    \* ---- generateKeysInBatches: history (not program state)
    calls,                  \* the LLM calls issued, in order, with their answers
    outs,                   \* per entry of results: where its parts came from
    \* ---- extractAllText: arguments and outcome
    figmaFile,              \* FigmaFile
    pageId,                 \* string | undefined (<<>>: not given, or empty)
    nodeId,                 \* string | undefined (<<>>: not given, or empty)
    onlyVisible,            \* boolean
    xpc,                    \* ready, done, error
    xResult,                \* FigmaTextNode[] returned
    xErr,                   \* the message of the error thrown
    \* ---- filterTextNodes: arguments and outcome
    fNodes,                 \* FigmaTextNode[]
    fOptions,               \* FilterOptions
    fpc,                    \* ready, done
    fResult,                \* { filtered, excluded } (with the list after each stage)
    \* ---- removeDuplicateTexts: arguments and outcome
    dNodes,                 \* FigmaTextNode[]
    dContextAware,          \* boolean
    dpc,                    \* ready, done
    dResult,                \* FigmaTextNode[] returned
    \* ---- filterNewTexts: arguments and outcome
    nNodes,                 \* FigmaTextNode[]
    jpJson,                 \* I18nJson
    npc,                    \* ready, done
    nResult,                \* FigmaTextNode[] returned
    \* ---- the server: database tables and the request last served
    users,                  \* table users: normalized email -> role
    usageLogs,              \* table usage_logs: the rows inserted, in order
    req,                    \* the request last served, with what its environment did
    resp,                   \* the response given to it
    effects,                \* what serving it did outside the process, in order
    \* ---- a helper function called on its own: arguments and outcome
    hArgs,                  \* the arguments, as a record
    hpc,                    \* ready, done
    hResult                 \* what it returned

genVars == <<nodes, existingKeys, batchSize, gpc, i, spin, batches, bi, results,
             totalPromptTokens, totalCompletionTokens, totalTokens,
             allExistingKeys, parsed, duplicates, ret, err, calls, outs>>

extVars == <<figmaFile, pageId, nodeId, onlyVisible, xpc, xResult, xErr>>

filVars == <<fNodes, fOptions, fpc, fResult>>

dedVars == <<dNodes, dContextAware, dpc, dResult>>

newVars == <<nNodes, jpJson, npc, nResult>>

srvVars == <<users, usageLogs, req, resp, effects>>

hlpVars == <<hArgs, hpc, hResult>>

vars == <<genVars, extVars, filVars, dedVars, newVars, srvVars, hlpVars>>

\* What an operation of one component leaves alone: the other components.
notGen == <<extVars, filVars, dedVars, newVars, srvVars, hlpVars>>
notExt == <<genVars, filVars, dedVars, newVars, srvVars, hlpVars>>
notFil == <<genVars, extVars, dedVars, newVars, srvVars, hlpVars>>
notDed == <<genVars, extVars, filVars, newVars, srvVars, hlpVars>>
notNew == <<genVars, extVars, filVars, dedVars, srvVars, hlpVars>>
notSrv == <<genVars, extVars, filVars, dedVars, newVars, hlpVars>>
notHlp == <<genVars, extVars, filVars, dedVars, newVars, srvVars>>

----------------------------------------------------------------------------
(* Bounds of the model *)

MaxNodes == 2
MaxBatchSize == 2
MaxFilterNodes == 3
MaxDedupeNodes == 3
MaxNewNodes == 3
MaxLogs == 1

\* The splitting loop is recorded up to this many batches; a terminating split
\* never needs more than one batch per record.
MaxBatches == MaxNodes + 1

----------------------------------------------------------------------------
(* Generic helpers *)

Min(a, b) == IF a < b THEN a ELSE b
Max(a, b) == IF a > b THEN a ELSE b

Range(s) == {s[n] : n \in 1..Len(s)}

RECURSIVE SeqOf(_)
\* The elements of a finite set in a fixed enumeration order.
SeqOf(S) == IF S = {} THEN <<>>
            ELSE LET x == CHOOSE y \in S : TRUE IN <<x>> \o SeqOf(S \ {x})

RECURSIVE SelectSeqIdx(_, _, _)
\* Array.prototype.filter with the predicate given as a set of kept indices.
SelectSeqIdx(s, keep, n) ==
    IF n > Len(s) THEN <<>>
    ELSE (IF n \in keep THEN <<s[n]>> ELSE <<>>) \o SelectSeqIdx(s, keep, n + 1)

BoundedSeqs(S, n) == UNION {[1..k -> S] : k \in 0..n}

\* Array.prototype.slice(start, end) for integer arguments.
slice(s, start, end) ==
    LET len  == Len(s)
        from == IF start < 0 THEN Max(len + start, 0) ELSE Min(start, len)
        to   == IF end < 0 THEN Max(len + end, 0) ELSE Min(end, len)
    IN SubSeq(s, from + 1, to)

----------------------------------------------------------------------------
(* JSON values: I18nJson and what JSON.parse / property access produce *)

Str(s) == [t |-> "str", s |-> s]
Obj(m) == [t |-> "obj", m |-> m]
Undef == [t |-> "undef", s |-> <<>>]
Thrown == [t |-> "throw", s |-> <<>>]
EmptyMap == <<>>

DOT == "."

RECURSIVE extractAllKeysFrom(_, _, _)
\* The for-in loop of extractAllKeys over the keys `keys` still to visit.
extractAllKeysFrom(obj, prefix, keys) ==
    IF keys = <<>> THEN <<>>
    ELSE LET key     == Head(keys)
             fullKey == IF prefix # <<>> THEN prefix \o <<DOT>> \o key ELSE key
         IN (IF obj[key].t = "obj"
             THEN extractAllKeysFrom(obj[key].m, fullKey, SeqOf(DOMAIN obj[key].m))
             ELSE <<fullKey>>)
            \o extractAllKeysFrom(obj, prefix, Tail(keys))

extractAllKeys(obj) == extractAllKeysFrom(obj, <<>>, SeqOf(DOMAIN obj))

RECURSIVE split(_)
\* String.prototype.split('.')
split(s) ==
    IF \A n \in 1..Len(s) : s[n] # DOT THEN <<s>>
    ELSE LET at == CHOOSE n \in 1..Len(s) : s[n] = DOT /\ \A m \in 1..(n - 1) : s[m] # DOT
         IN <<SubSeq(s, 1, at - 1)>> \o split(SubSeq(s, at + 1, Len(s)))

RECURSIVE Descend(_, _)
\* for (const part of parts) current = current[part]: a property of undefined
\* throws a TypeError, a missing property or a property of a string is undefined.
Descend(current, parts) ==
    IF parts = <<>> THEN current
    ELSE IF current.t \in {"undef", "throw"} THEN Thrown
    ELSE IF current.t = "obj" /\ Head(parts) \in DOMAIN current.m
         THEN Descend(current.m[Head(parts)], Tail(parts))
    ELSE Descend(Undef, Tail(parts))

findDuplicateKeys(generated, existing) ==
    LET generatedKeysList == extractAllKeys(generated)
    IN SelectSeqIdx(generatedKeysList,
                    {n \in 1..Len(generatedKeysList) : generatedKeysList[n] \in existing}, 1)

\* Array.prototype.find(n => n.text === value): the first match, or NoNode.
NoNode == [text |-> <<"<none>">>, frameName |-> <<>>, framePath |-> <<>>, nodeId |-> <<>>]
FindByText(originalNodes, value) ==
    IF \E n \in 1..Len(originalNodes) : originalNodes[n].text = value
    THEN originalNodes[CHOOSE n \in 1..Len(originalNodes) :
                          /\ originalNodes[n].text = value
                          /\ \A m \in 1..(n - 1) : originalNodes[m].text # value]
    ELSE NoNode

RECURSIVE createNodesForRegenerationFrom(_, _, _)
createNodesForRegenerationFrom(originalNodes, generatedKeys, duplicateKeys) ==
    IF duplicateKeys = <<>> THEN <<>>
    ELSE LET current == Descend(Obj(generatedKeys), split(Head(duplicateKeys)))
             value   == IF current.t = "str" THEN current.s ELSE <<>>
             node    == FindByText(originalNodes, value)
             rest    == createNodesForRegenerationFrom(originalNodes, generatedKeys,
                                                       Tail(duplicateKeys))
         IN IF current.t = "throw" \/ rest = <<Thrown>> THEN <<Thrown>>
            ELSE (IF node # NoNode THEN <<node>> ELSE <<>>) \o rest

\* The nodes to regenerate, or <<Thrown>> when the descent raises a TypeError.
createNodesForRegeneration(originalNodes, generatedKeys, duplicateKeys) ==
    createNodesForRegenerationFrom(originalNodes, generatedKeys, duplicateKeys)

----------------------------------------------------------------------------
(* Inputs of the generator: records, existing keys, LLM answers *)

T1 == <<"h", "o">>
T2 == <<"m", "e">>

R1 == [text |-> T1, frameName |-> <<"L">>, framePath |-> << <<"L">> >>, nodeId |-> <<"1", ":", "2">>]
R2 == [text |-> T2, frameName |-> <<"L">>, framePath |-> << <<"L">> >>, nodeId |-> <<"1", ":", "3">>]
RecordPool == {R1, R2}

Ka == <<"a">>
Kb == <<"b">>
Kc == <<"c">>
Kab == <<"a", DOT, "b">>
Kabc == <<"a", DOT, "b", DOT, "c">>

\* {"a": T1}
Ma == Ka :> Str(T1)
\* {"a": T1, "b": T2}
Mab == (Ka :> Str(T1)) @@ (Kb :> Str(T2))
\* {"c": {"a": T1}}: a nested answer with the leaf key-path "c.a"
Mn == Kc :> Obj(Ka :> Str(T1))
\* {"a.b": T1, "a": {"b": {"c": T2}}}: a key that contains the separator
Md == (Kab :> Str(T1)) @@ (Ka :> Obj(Kb :> Obj(Kc :> Str(T2))))

\* {"a.b": T1}: a flat key that contains the separator, with no property "a"
Mf == Kab :> Str(T1)

\* {"b": T1}: the key that Mab gives to T2, here given to T1
Mb1 == Kb :> Str(T1)

\* {"c": {"b": T2}}: another nested map under the top-level key of Mn
Mn2 == Kc :> Obj(Kb :> Str(T2))

ExistingKeyLists == {{}, {Ka}, {Ka, Kabc}}

NoUsage == [present |-> FALSE, prompt_tokens |-> 0, completion_tokens |-> 0, total_tokens |-> 0]
U1 == [present |-> TRUE, prompt_tokens |-> 2, completion_tokens |-> 1, total_tokens |-> 3]
U2 == [present |-> TRUE, prompt_tokens |-> 3, completion_tokens |-> 2, total_tokens |-> 5]

\* What openai.chat.completions.create can do: throw, or resolve with a content
\* (missing or empty, not JSON, or a JSON object) and an optional usage record.
Resp(kind, content, json, usage) ==
    [kind |-> kind, content |-> content, json |-> json, usage |-> usage]
Pending == Resp("pending", "none", EmptyMap, NoUsage)
RThrow == Resp("throw", "none", EmptyMap, NoUsage)
REmpty == Resp("ok", "empty", EmptyMap, U1)
RGarbage == Resp("ok", "garbage", EmptyMap, U1)
Responses ==
    {RThrow, REmpty, RGarbage,
     Resp("ok", "json", Ma, U1),
     Resp("ok", "json", Mab, U2), Resp("ok", "json", Mn, U1),
     Resp("ok", "json", Md, U2), Resp("ok", "json", Mf, NoUsage),
     Resp("ok", "json", Mb1, U1), Resp("ok", "json", Mn2, NoUsage)}

NoReturn == [returned |-> FALSE, generatedKeys |-> EmptyMap,
             tokenUsage |-> [promptTokens |-> 0, completionTokens |-> 0, totalTokens |-> 0]]
NoError == "none"

\* buildPrompt: the prompt is a function of the records rendered in it (and of the
\* style sample and the flat/nested flag, fixed here); the retry prompt appends
\* the keys already taken.
buildPrompt(promptNodes) == [nodes |-> promptNodes, taken |-> <<>>]
retryPrompt(promptNodes, taken) == [nodes |-> promptNodes, taken |-> taken]

----------------------------------------------------------------------------
(* generateKeysInBatches *)

GenInit ==
    /\ nodes \in BoundedSeqs(RecordPool, MaxNodes)
    /\ existingKeys \in ExistingKeyLists
    /\ batchSize \in 0..MaxBatchSize
    /\ gpc = "split"
    /\ i = 0
    /\ spin = 0
    /\ batches = <<>>
    /\ bi = 1
    /\ results = <<>>
    /\ totalPromptTokens = 0
    /\ totalCompletionTokens = 0
    /\ totalTokens = 0
    /\ allExistingKeys = existingKeys
    /\ parsed = EmptyMap
    /\ duplicates = <<>>
    /\ ret = NoReturn
    /\ err = NoError
    /\ calls = <<>>
    /\ outs = <<>>

genArgs == <<nodes, existingKeys, batchSize>>
genTotals == <<totalPromptTokens, totalCompletionTokens, totalTokens>>

\* One iteration of: for (let i = 0; i < nodes.length; i += batchSize)
\*                     batches.push(nodes.slice(i, i + batchSize))
\* Past MaxBatches recorded batches the iteration is only counted (spin).
SplitStep ==
    /\ gpc = "split"
    /\ UNCHANGED notGen
    /\ i < Len(nodes)
    /\ IF Len(batches) < MaxBatches
       THEN batches' = Append(batches, slice(nodes, i, i + batchSize)) /\ spin' = spin
       ELSE batches' = batches /\ spin' = 1 - spin
    /\ i' = i + batchSize
    /\ UNCHANGED <<genArgs, gpc, bi, results, genTotals, allExistingKeys, parsed,
                   duplicates, ret, err, calls, outs>>

SplitDone ==
    /\ gpc = "split"
    /\ UNCHANGED notGen
    /\ ~(i < Len(nodes))
    /\ gpc' = "loop"
    /\ UNCHANGED <<genArgs, i, spin, batches, bi, results, genTotals, allExistingKeys,
                   parsed, duplicates, ret, err, calls, outs>>

\* An LLM call as it is issued; registry and appended record allExistingKeys and
\* results.length at that moment (history, read by the claims only).
Call(pass, prompt) ==
    [pass |-> pass, batch |-> bi, prompt |-> prompt, resp |-> Pending,
     registry |-> allExistingKeys, appended |-> Len(results)]
Answered(r) == [calls EXCEPT ![Len(calls)].resp = r]

\* const prompt = buildPrompt(batch, contextSample, useNestedKeys)
firstPassPromptWithTaken == retryPrompt(batches[bi], SeqOf(allExistingKeys))
firstPassPrompt == buildPrompt(batches[bi])

\* The first-pass call of the next batch of: for (const batch of batches)
IssueFirstPass ==
    /\ gpc = "loop"
    /\ UNCHANGED notGen
    /\ bi <= Len(batches)
    /\ calls' = Append(calls, Call("first", firstPassPrompt))
    /\ gpc' = "await1"
    /\ UNCHANGED <<genArgs, i, spin, batches, bi, results, genTotals, allExistingKeys,
                   parsed, duplicates, ret, err, outs>>

Fail(message) ==
    /\ gpc' = "failed"
    /\ err' = message
    /\ UNCHANGED <<genArgs, i, spin, batches, bi, results, allExistingKeys, parsed,
                   duplicates, ret, outs>>

AddUsage(usage) ==
    IF usage.present
    THEN /\ totalPromptTokens' = totalPromptTokens + usage.prompt_tokens
         /\ totalCompletionTokens' = totalCompletionTokens + usage.completion_tokens
         /\ totalTokens' = totalTokens + usage.total_tokens
    ELSE UNCHANGED genTotals

KeySet(obj) == Range(extractAllKeys(obj))

\* extractAllKeys(obj).forEach(k => allExistingKeys.add(k))
addAllReplacing(registry, obj) == KeySet(obj)
addAll(registry, obj) == registry \cup KeySet(obj)

\* The catch block around the processing of a batch: log and rethrow.
AfterCatchSwallow == "loop"
AfterCatch == "failed"

\* The first-pass await resolves or rejects; the code runs on to the retry call
\* or to the end of the batch.
FirstPassAnswer(r) ==
    /\ gpc = "await1"
    /\ UNCHANGED notGen
    /\ IF r.kind = "throw"
       THEN /\ calls' = Answered(r)
            /\ Fail("llm")
            /\ UNCHANGED genTotals
       ELSE IF r.content = "empty"
       THEN /\ calls' = Answered(r)
            /\ Fail("No response from OpenAI")
            /\ UNCHANGED genTotals
       ELSE
       /\ AddUsage(r.usage)
       /\ IF r.content = "garbage"
          THEN /\ calls' = Answered(r)
               /\ gpc' = AfterCatch
               /\ err' = "Invalid JSON response from OpenAI"
               /\ UNCHANGED <<genArgs, i, spin, batches, bi, results, allExistingKeys,
                              parsed, duplicates, ret, outs>>
          ELSE
          LET p    == r.json
              dups == findDuplicateKeys(p, allExistingKeys)
          IN IF Len(dups) > 0
             THEN LET nodesToRegenerate == createNodesForRegeneration(batches[bi], p, dups)
                  IN IF nodesToRegenerate = <<Thrown>>
                     THEN /\ calls' = Answered(r)
                          /\ gpc' = AfterCatch
                          /\ err' = "Invalid JSON response from OpenAI"
                          /\ UNCHANGED <<genArgs, i, spin, batches, bi, results,
                                         allExistingKeys, parsed, duplicates, ret, outs>>
                     ELSE /\ calls' = Append(Answered(r),
                                             Call("retry", retryPrompt(nodesToRegenerate, dups)))
                          /\ parsed' = p
                          /\ duplicates' = dups
                          /\ gpc' = "await2"
                          /\ UNCHANGED <<genArgs, i, spin, batches, bi, results,
                                         allExistingKeys, ret, err, outs>>
             ELSE /\ calls' = Answered(r)
                  /\ results' = Append(results, p)
                  /\ outs' = Append(outs, [batch |-> bi, regStart |-> allExistingKeys,
                                           first |-> p, retry |-> EmptyMap,
                                           regenerated |-> FALSE])
                  /\ allExistingKeys' = addAll(allExistingKeys, p)
                  /\ bi' = bi + 1
                  /\ gpc' = "loop"
                  /\ UNCHANGED <<genArgs, i, spin, batches, parsed, duplicates, ret, err>>

FirstPassReturns == \E r \in Responses : FirstPassAnswer(r)

\* The copy of the non-duplicate keys of parsed into filteredParsed: a map from
\* each kept key-path (as one flat key) to what the descent reaches, or Thrown.
filteredParsedOf(p, dups) ==
    LET kept == {k \in KeySet(p) : k \notin Range(dups)}
    IN IF \E k \in kept : Descend(Obj(p), split(k)).t = "throw"
       THEN Thrown
       ELSE Obj([k \in kept |-> Descend(Obj(p), split(k))])

\* { ...a, ...b }
SpreadDeep(a, b) ==
    [key \in DOMAIN a \cup DOMAIN b |->
        IF key \in DOMAIN a /\ key \in DOMAIN b /\ a[key].t = "obj" /\ b[key].t = "obj"
        THEN Obj(b[key].m @@ a[key].m)
        ELSE IF key \in DOMAIN b THEN b[key] ELSE a[key]]
Spread(a, b) == b @@ a

\* What a retry answer with missing or empty content leads to: the if without else.
RetryEmpty == "loop"

RetryAnswer(r) ==
    /\ gpc = "await2"
    /\ UNCHANGED notGen
    /\ calls' = Answered(r)
    /\ IF r.kind = "throw" \/ (r.kind = "ok" /\ r.content = "garbage")
       THEN /\ gpc' = AfterCatch
            /\ err' = "Invalid JSON response from OpenAI"
            /\ UNCHANGED <<genArgs, i, spin, batches, bi, results, allExistingKeys,
                           parsed, duplicates, ret, outs, genTotals>>
       ELSE IF r.content = "empty"
       THEN /\ gpc' = RetryEmpty
            /\ bi' = bi + 1
            /\ UNCHANGED <<genArgs, i, spin, batches, results, allExistingKeys,
                           parsed, duplicates, ret, err, outs, genTotals>>
       ELSE
       LET retryParsed    == r.json
           filteredParsed == filteredParsedOf(parsed, duplicates)
       IN /\ AddUsage(r.usage)
          /\ IF filteredParsed = Thrown
             THEN /\ gpc' = AfterCatch
                  /\ err' = "Invalid JSON response from OpenAI"
                  /\ UNCHANGED <<genArgs, i, spin, batches, bi, results, allExistingKeys,
                                 parsed, duplicates, ret, outs>>
             ELSE /\ results' = Append(results, Spread(filteredParsed.m, retryParsed))
                  /\ outs' = Append(outs, [batch |-> bi, regStart |-> allExistingKeys,
                                           first |-> filteredParsed.m, retry |-> retryParsed,
                                           regenerated |-> TRUE])
                  /\ allExistingKeys' = addAll(addAll(allExistingKeys, retryParsed),
                                                filteredParsed.m)
                  /\ bi' = bi + 1
                  /\ gpc' = "loop"
                  /\ UNCHANGED <<genArgs, i, spin, batches, parsed, duplicates, ret, err>>

RetryReturns == \E r \in Responses : RetryAnswer(r)

RECURSIVE reduceSpread(_, _)
\* results.reduce((acc, curr) => ({ ...acc, ...curr }), {})
reduceSpread(acc, rs) ==
    IF rs = <<>> THEN acc ELSE reduceSpread(Spread(acc, Head(rs)), Tail(rs))

ReturnResult ==
    /\ gpc = "loop"
    /\ UNCHANGED notGen
    /\ bi > Len(batches)
    /\ ret' = [returned |-> TRUE,
               generatedKeys |-> reduceSpread(EmptyMap, results),
               tokenUsage |-> [promptTokens |-> totalPromptTokens,
                               completionTokens |-> totalCompletionTokens,
                               totalTokens |-> totalTokens]]
    /\ gpc' = "returned"
    /\ UNCHANGED <<genArgs, i, spin, batches, bi, results, genTotals, allExistingKeys,
                   parsed, duplicates, err, calls, outs>>

GenNext ==
    \/ SplitStep
    \/ SplitDone
    \/ IssueFirstPass
    \/ FirstPassReturns
    \/ RetryReturns
    \/ ReturnResult

----------------------------------------------------------------------------
(* Strings of the document tree *)

WhiteSpace == {" ", "\t", "\n"}

RECURSIVE trimStart(_)
trimStart(s) == IF s # <<>> /\ Head(s) \in WhiteSpace THEN trimStart(Tail(s)) ELSE s

RECURSIVE trimEnd(_)
trimEnd(s) == IF s # <<>> /\ s[Len(s)] \in WhiteSpace THEN trimEnd(SubSeq(s, 1, Len(s) - 1)) ELSE s

\* String.prototype.trim
trim(s) == trimEnd(trimStart(s))

\* String.prototype.substring(from, to) for 0 <= from <= to
substring(s, from, to) == SubSeq(s, from + 1, Min(to, Len(s)))

RECURSIVE splitOn(_, _)
\* String.prototype.split(sep) for a one-character separator
splitOn(s, sep) ==
    IF \A n \in 1..Len(s) : s[n] # sep THEN <<s>>
    ELSE LET at == CHOOSE n \in 1..Len(s) : s[n] = sep /\ \A m \in 1..(n - 1) : s[m] # sep
         IN <<SubSeq(s, 1, at - 1)>> \o splitOn(SubSeq(s, at + 1, Len(s)), sep)

----------------------------------------------------------------------------
(* The document tree: FigmaNode, FigmaFile *)

\* visible is "absent", "true" or "false"; characters <<>> stands for a missing or
\* empty string (both falsy); hasChildren tells a children list from none.
FigmaNode(id, name, type, characters, visible, hasChildren, children) ==
    [id |-> id, name |-> name, type |-> type, characters |-> characters,
     visible |-> visible, hasChildren |-> hasChildren, children |-> children]

Leaf(id, name, type, characters, visible) ==
    FigmaNode(id, name, type, characters, visible, FALSE, <<>>)

NoFigmaNode == Leaf(<<"<null>">>, <<>>, "NONE", <<>>, "absent")

ShortIdLen == 4

\* node.id.split(':')[1]?.substring(0, 4) || node.id.substring(0, 4)
shortIdOf(id) ==
    LET parts == splitOn(id, ":")
        second == IF Len(parts) >= 2 THEN substring(parts[2], 0, ShortIdLen) ELSE <<>>
    IN IF second # <<>> THEN second ELSE substring(id, 0, ShortIdLen)

\* The entry a node adds to the frame path, <<>> (as a sequence of entries) if none.
pathEntryOf(node) ==
    IF node.type \in {"FRAME", "COMPONENT", "INSTANCE"}
    THEN IF node.type \in {"INSTANCE", "COMPONENT"}
         THEN << node.name \o <<" ", "[">> \o shortIdOf(node.id) \o <<"]">> >>
         ELSE << node.name >>
    ELSE <<>>

Root == <<"R", "o", "o", "t">>

\* Skip hidden nodes if onlyVisible is true
skipsHiddenAlways(node, only) == node.visible = "false"
skipsHidden(node, only) == only /\ node.visible = "false"

RECURSIVE extractTextNodes(_, _, _)
RECURSIVE extractChildren(_, _, _)

extractTextNodes(node, framePath, only) ==
    IF skipsHidden(node, only) THEN <<>>
    ELSE LET currentPath == framePath \o pathEntryOf(node)
             last == IF currentPath = <<>> THEN <<>> ELSE currentPath[Len(currentPath)]
             own  == IF node.type = "TEXT" /\ node.characters # <<>>
                     THEN << [text |-> trim(node.characters),
                              frameName |-> IF last # <<>> THEN last ELSE Root,
                              framePath |-> currentPath,
                              nodeId |-> node.id] >>
                     ELSE <<>>
         IN own \o (IF node.hasChildren
                    THEN extractChildren(node.children, currentPath, only)
                    ELSE <<>>)

\* for (const child of node.children) textNodes.push(...extractTextNodes(child, ...))
extractChildren(children, currentPath, only) ==
    IF children = <<>> THEN <<>>
    ELSE extractTextNodes(Head(children), currentPath, only)
         \o extractChildren(Tail(children), currentPath, only)

RECURSIVE findNodeById(_, _)
RECURSIVE findInChildren(_, _)

findNodeById(node, targetId) ==
    IF node.id = targetId THEN node
    ELSE IF node.hasChildren THEN findInChildren(node.children, targetId)
    ELSE NoFigmaNode

findInChildren(children, targetId) ==
    IF children = <<>> THEN NoFigmaNode
    ELSE LET found == findNodeById(Head(children), targetId)
         IN IF found # NoFigmaNode THEN found ELSE findInChildren(Tail(children), targetId)

Ok(list) == [ok |-> TRUE, nodes |-> list, error |-> "none"]
Throws(message) == [ok |-> FALSE, nodes |-> <<>>, error |-> message]

\* children.find(child => child.id === pageId)
findPage(children, id) ==
    IF \E n \in 1..Len(children) : children[n].id = id
    THEN children[CHOOSE n \in 1..Len(children) :
                     children[n].id = id /\ \A m \in 1..(n - 1) : children[m].id # id]
    ELSE NoFigmaNode

extractTextFromPage(file, page, only) ==
    IF ~file.document.hasChildren THEN Ok(<<>>)
    ELSE LET kids == file.document.children
             targetPage == IF page # <<>> THEN findPage(kids, page)
                           ELSE IF kids # <<>> THEN kids[1] ELSE NoFigmaNode
         IN IF targetPage = NoFigmaNode THEN Throws("Page not found")
            ELSE Ok(extractTextNodes(targetPage, <<>>, only))

extractTextFromNode(file, id, only) ==
    LET targetNode == findNodeById(file.document, id)
    IN IF targetNode = NoFigmaNode THEN Throws("Node with ID not found in Figma file")
       ELSE Ok(extractTextNodes(targetNode, <<>>, only))

extractAllTextPageFirst(file, page, id, only) ==
    IF page # <<>> THEN extractTextFromPage(file, page, only)
    ELSE IF id # <<>> THEN extractTextFromNode(file, id, only)
    ELSE extractTextFromPage(file, page, only)

extractAllText(file, page, id, only) ==
    IF id # <<>> THEN extractTextFromNode(file, id, only)
    ELSE extractTextFromPage(file, page, only)

----------------------------------------------------------------------------
(* Documents and arguments the extractor is run on *)

Option == <<"O", "p", "t", "i", "o", "n">>
Other == <<"O", "t", "h", "e", "r">>
Ho == <<"h", "o">>
HoPadded == <<" ", "h", "o", " ">>
Blank == <<" ">>

IdDoc == <<"0", ":", "0">>
IdPage1 == <<"0", ":", "1">>
IdPage2 == <<"0", ":", "2">>
IdA == <<"1", ":", "2", "3", "4", "5", "6">>
IdB == <<"1", ":", "2", "3", "4", "5", "7">>
IdC == <<"1", ":", "9">>
IdD == <<"I", "5">>
IdE == <<"I", "6">>
IdXt == <<"2", ":", "1">>
IdYt == <<"2", ":", "2">>
IdP2t == <<"2", ":", "3">>
IdNone == <<"9", ":", "9">>

Visibility == {"absent", "true", "false"}
ContainerTypes == {"FRAME", "GROUP", "COMPONENT", "INSTANCE"}

\* DOCUMENT > [Page 1 > [X > [text], Y > [text]], Page 2 > [text]]
FullDoc(tx, ty, ids, nameY, vx, vPage, cx, vXt) ==
    FigmaNode(IdDoc, <<"D">>, "DOCUMENT", <<>>, "absent", TRUE,
      << FigmaNode(IdPage1, <<"P", "1">>, "CANVAS", <<>>, vPage, TRUE,
           << FigmaNode(ids[1], Option, tx, <<>>, vx, TRUE,
                << Leaf(IdXt, <<"t">>, "TEXT", cx, vXt) >>),
              FigmaNode(ids[2], nameY, ty, <<>>, "absent", TRUE,
                << Leaf(IdYt, <<"t">>, "TEXT", Ho, "absent") >>) >>),
         FigmaNode(IdPage2, <<"P", "2">>, "CANVAS", <<>>, "absent", TRUE,
           << Leaf(IdP2t, <<"t">>, "TEXT", T2, "true") >>) >>)

Documents ==
    { FigmaNode(IdDoc, <<"D">>, "DOCUMENT", <<>>, "absent", FALSE, <<>>),
      FigmaNode(IdDoc, <<"D">>, "DOCUMENT", <<>>, "absent", TRUE, <<>>) }
    \cup
    { FullDoc(tx, ty, ids, nameY, vx, vPage, cx, vXt) :
        tx \in ContainerTypes, ty \in {"INSTANCE", "COMPONENT"},
        ids \in {<<IdA, IdB>>, <<IdA, IdC>>, <<IdD, IdE>>},
        nameY \in {Option, Other}, vx \in Visibility, vPage \in {"absent", "false"},
        cx \in {Ho, HoPadded, Blank, <<>>}, vXt \in {"absent", "false"} }

PageIdArgs == {<<>>, IdPage2, IdNone}
NodeIdArgs == {<<>>, IdA, IdXt, IdNone}

----------------------------------------------------------------------------
(* extractAllText as an operation *)

ExtInit ==
    /\ figmaFile \in {[document |-> d, name |-> <<"f">>] : d \in Documents}
    /\ pageId \in PageIdArgs
    /\ nodeId \in NodeIdArgs
    /\ onlyVisible \in BOOLEAN
    /\ xpc = "ready"
    /\ xResult = <<>>
    /\ xErr = "none"

ExtIdle ==
    /\ figmaFile = [document |-> FigmaNode(IdDoc, <<"D">>, "DOCUMENT", <<>>, "absent", FALSE, <<>>),
                    name |-> <<"f">>]
    /\ pageId = <<>>
    /\ nodeId = <<>>
    /\ onlyVisible = TRUE
    /\ xpc = "idle"
    /\ xResult = <<>>
    /\ xErr = "none"

ExtractAllTextReturns ==
    /\ xpc = "ready"
    /\ UNCHANGED notExt
    /\ LET r == extractAllText(figmaFile, pageId, nodeId, onlyVisible)
       IN /\ r.ok
          /\ xpc' = "done"
          /\ xResult' = r.nodes
          /\ xErr' = xErr
    /\ UNCHANGED <<figmaFile, pageId, nodeId, onlyVisible>>

ExtractAllTextThrows ==
    /\ xpc = "ready"
    /\ UNCHANGED notExt
    /\ LET r == extractAllText(figmaFile, pageId, nodeId, onlyVisible)
       IN /\ ~r.ok
          /\ xpc' = "error"
          /\ xErr' = r.error
          /\ xResult' = xResult
    /\ UNCHANGED <<figmaFile, pageId, nodeId, onlyVisible>>

ExtNext == ExtractAllTextReturns \/ ExtractAllTextThrows

GenIdle ==
    /\ nodes = <<>>
    /\ existingKeys = {}
    /\ batchSize = 1
    /\ gpc = "idle"
    /\ i = 0
    /\ spin = 0
    /\ batches = <<>>
    /\ bi = 1
    /\ results = <<>>
    /\ totalPromptTokens = 0
    /\ totalCompletionTokens = 0
    /\ totalTokens = 0
    /\ allExistingKeys = {}
    /\ parsed = EmptyMap
    /\ duplicates = <<>>
    /\ ret = NoReturn
    /\ err = NoError
    /\ calls = <<>>
    /\ outs = <<>>

----------------------------------------------------------------------------
(* The noise filter: characters and patterns *)

Digits == {"0", "1", "2", "3", "4", "5", "6", "7", "8", "9"}
LineTerminators == {"\n"}
\* Characters outside the Basic Multilingual Plane count two in String.length.
Astral == {"<party>"}

RECURSIVE jsLength(_)
\* String.prototype.length
jsLength(s) == IF s = <<>> THEN 0 ELSE (IF Head(s) \in Astral THEN 2 ELSE 1) + jsLength(Tail(s))

UpperToLower ==
    [c \in {"A", "B", "C", "D", "E", "F", "G", "H", "I", "J", "K", "L", "M", "N", "O",
            "P", "Q", "R", "S", "T", "U", "V", "W", "X", "Y", "Z"} |->
        CASE c = "A" -> "a" [] c = "B" -> "b" [] c = "C" -> "c" [] c = "D" -> "d"
          [] c = "E" -> "e" [] c = "F" -> "f" [] c = "G" -> "g" [] c = "H" -> "h"
          [] c = "I" -> "i" [] c = "J" -> "j" [] c = "K" -> "k" [] c = "L" -> "l"
          [] c = "M" -> "m" [] c = "N" -> "n" [] c = "O" -> "o" [] c = "P" -> "p"
          [] c = "Q" -> "q" [] c = "R" -> "r" [] c = "S" -> "s" [] c = "T" -> "t"
          [] c = "U" -> "u" [] c = "V" -> "v" [] c = "W" -> "w" [] c = "X" -> "x"
          [] c = "Y" -> "y" [] c = "Z" -> "z"]

\* String.prototype.toLowerCase
toLowerCase(s) ==
    [n \in 1..Len(s) |-> IF s[n] \in DOMAIN UpperToLower THEN UpperToLower[s[n]] ELSE s[n]]

startsWith(s, prefix) == Len(s) >= Len(prefix) /\ SubSeq(s, 1, Len(prefix)) = prefix

\* String.prototype.includes
includes(s, needle) ==
    \E n \in 0..(Len(s) - Len(needle)) : SubSeq(s, n + 1, n + Len(needle)) = needle

RECURSIVE join(_, _)
\* Array.prototype.join
join(parts, sep) ==
    IF parts = <<>> THEN <<>>
    ELSE IF Len(parts) = 1 THEN parts[1]
    ELSE parts[1] \o sep \o join(Tail(parts), sep)

\* /^[...]+$/ for a character class
OnlyFrom(s, class) == s # <<>> /\ \A n \in 1..Len(s) : s[n] \in class

IconChars == {"<rarr>", "<larr>", "<uarr>", "<darr>", "<check>", "<ballot-x>", "<times>",
              "+", "-", "=", "<", ">"}
SpecialChars == {"!", "@", "#", "$", "%", "^", "&", "*", "(", ")", "_", "+", "-", "=",
                 "[", "]", "{", "}", ";", "'", ":", "\"", "\\", "|", ",", ".", "<", ">",
                 "/", "?"}
CurrencyChars == {"$", "<euro>", "<yen>", "<pound>", "<rupee>"}
DotChars == {".", "<ellipsis>"}
PlaceholderPrefixes ==
    { <<"l", "o", "r", "e", "m", " ", "i", "p", "s", "u", "m">>,
      <<"p", "l", "a", "c", "e", "h", "o", "l", "d", "e", "r">>,
      <<"t", "e", "s", "t">>,
      <<"e", "x", "a", "m", "p", "l", "e">>,
      <<"x", "x", "x">>,
      <<"0", "0", "0">> }

\* /^v?\d+\.\d+(\.\d+)?$/
IsVersion(s) ==
    LET body  == IF s # <<>> /\ Head(s) = "v" THEN Tail(s) ELSE s
        parts == splitOn(body, ".")
    IN /\ Len(parts) \in {2, 3}
       /\ \A n \in 1..Len(parts) : OnlyFrom(parts[n], Digits)

\* EXCLUDE_PATTERNS, in the order of Object.values
MatchesExcludePattern(trimmed) ==
    \/ (Len(trimmed) = 1 /\ jsLength(trimmed) = 1 /\ trimmed[1] \notin LineTerminators)
    \/ OnlyFrom(trimmed, Digits \cup WhiteSpace \cup {",", "."})
    \/ OnlyFrom(trimmed, IconChars)
    \/ OnlyFrom(trimmed, SpecialChars)
    \/ OnlyFrom(trimmed, CurrencyChars)
    \/ OnlyFrom(trimmed, Astral)
    \/ OnlyFrom(trimmed, DotChars)
    \/ \E prefix \in PlaceholderPrefixes : startsWith(toLowerCase(trimmed), prefix)
    \/ IsVersion(trimmed)

COMMON_REPETITIVE_TEXT ==
    {<<"<bullet>">>, <<"/">>, <<"|">>, <<"-">>, <<"<em-dash>">>, <<"<en-dash>">>, <<"+">>,
     <<"<times>">>}

MinContentLength == 2

shouldExcludeByContent(text) ==
    LET trimmed == trim(text)
    IN \/ jsLength(trimmed) < MinContentLength
       \/ MatchesExcludePattern(trimmed)
       \/ trimmed \in COMMON_REPETITIVE_TEXT

EXCLUDE_FRAME_KEYWORDS ==
    { <<"i", "c", "o", "n">>, <<"l", "o", "g", "o">>, <<"b", "a", "d", "g", "e">>,
      <<"a", "v", "a", "t", "a", "r">>, <<"i", "m", "a", "g", "e">>, <<"i", "m", "g">>,
      <<"d", "e", "c", "o", "r", "a", "t", "i", "o", "n">>,
      <<"d", "i", "v", "i", "d", "e", "r">>, <<"s", "p", "a", "c", "e", "r">>,
      <<"l", "i", "n", "e">>, <<"d", "o", "t">>, <<"b", "u", "l", "l", "e", "t">>,
      <<"m", "a", "r", "k", "e", "r">> }

shouldExcludeByFrameName(framePath) ==
    LET frameNameLower == toLowerCase(join(framePath, <<" ">>))
    IN \E keyword \in EXCLUDE_FRAME_KEYWORDS : includes(frameNameLower, keyword)

\* The key removeDuplicateTexts remembers for a record.
contextKeyOf(node) ==
    LET pathDepth == Len(node.framePath)
        contextPath == IF pathDepth >= 2
                       THEN join(slice(node.framePath, pathDepth - 2, pathDepth), <<" ", ">", " ">>)
                       ELSE IF pathDepth = 1 THEN node.framePath[1]
                       ELSE <<"r", "o", "o", "t">>
    IN contextPath \o <<":", ":">> \o node.text

RECURSIVE dedupe(_, _, _, _)
\* nodes.filter(node => { if (seen.has(key)) return false; seen.add(key); return true })
dedupe(list, seen, contextAware, n) ==
    IF n > Len(list) THEN <<>>
    ELSE LET key == IF contextAware THEN contextKeyOf(list[n]) ELSE list[n].text
         IN IF key \in seen THEN dedupe(list, seen, contextAware, n + 1)
            ELSE <<list[n]>> \o dedupe(list, seen \cup {key}, contextAware, n + 1)

removeDuplicateTexts(list, contextAware) == dedupe(list, {}, contextAware, 1)

\* stats.x = beforeCount - result.length
removedCountOfSurvivors(before, after) == Len(after)
removedCount(before, after) == Len(before) - Len(after)

filterTextNodes(list, options) ==
    LET NotByContent(node) == ~shouldExcludeByContent(node.text)
        NotByFrameName(node) == ~shouldExcludeByFrameName(node.framePath)
        InLength(node) == LET len == jsLength(trim(node.text))
                          IN len >= options.minLength /\ len <= options.maxLength
        r0 == list
        r1 == IF options.excludeByContent THEN SelectSeqIdx(r0, {n \in 1..Len(r0) : NotByContent(r0[n])}, 1) ELSE r0
        r2 == IF options.excludeByFrameName THEN SelectSeqIdx(r1, {n \in 1..Len(r1) : NotByFrameName(r1[n])}, 1) ELSE r1
        r3 == SelectSeqIdx(r2, {n \in 1..Len(r2) : InLength(r2[n])}, 1)
        r4 == IF options.removeDuplicates
              THEN removeDuplicateTexts(r3, options.contextAwareDuplicates) ELSE r3
    IN [filtered |-> r4,
        excluded |->
          [byContent |-> IF options.excludeByContent THEN removedCount(r0, r1) ELSE 0,
           byFrameName |-> IF options.excludeByFrameName THEN removedCount(r1, r2) ELSE 0,
           byLength |-> removedCount(r2, r3),
           duplicates |-> IF options.removeDuplicates THEN removedCount(r3, r4) ELSE 0],
        stages |-> <<r0, r1, r2, r3, r4>>]

----------------------------------------------------------------------------
(* Records and options the filter is run on *)

Home == <<"<ho>", "<cho>", "<mu>">>
CardA == <<"C", "a", "r", "d", " ", "A">>
CardB == <<"C", "a", "r", "d", " ", "B">>
Body == <<"B", "o", "d", "y">>

TextRecord(text, framePath, id) ==
    [text |-> text, frameName |-> framePath[Len(framePath)], framePath |-> framePath,
     nodeId |-> id]

FilterPool ==
    { TextRecord(Home, <<CardA, Body>>, <<"3", ":", "1">>),
      TextRecord(Home, <<CardB, Body>>, <<"3", ":", "2">>),
      TextRecord(Home, <<CardA, Body>>, <<"3", ":", "3">>),
      TextRecord(<<" ", "1">>, <<CardA>>, <<"3", ":", "4">>),
      TextRecord(<<"<ho>", "<mu>">>, <<CardA, <<"I", "c", "o", "n", " ", "B", "a", "d", "g", "e">> >>,
                 <<"3", ":", "5">>),
      TextRecord(<<"v", "1", ".", "2">>, <<CardB>>, <<"3", ":", "6">>) }

DefaultMinLength == 2
DefaultMaxLength == 500

FilterOptions ==
    [minLength : {0, DefaultMinLength}, maxLength : {2, DefaultMaxLength},
     excludeByContent : BOOLEAN, excludeByFrameName : BOOLEAN,
     removeDuplicates : BOOLEAN, contextAwareDuplicates : BOOLEAN]

NoFilterResult ==
    [filtered |-> <<>>,
     excluded |-> [byContent |-> 0, byFrameName |-> 0, byLength |-> 0, duplicates |-> 0],
     stages |-> <<>>]

FilInit ==
    /\ fNodes \in BoundedSeqs(FilterPool, MaxFilterNodes)
    /\ fOptions \in FilterOptions
    /\ fpc = "ready"
    /\ fResult = NoFilterResult

FilIdle ==
    /\ fNodes = <<>>
    /\ fOptions = [minLength |-> DefaultMinLength, maxLength |-> DefaultMaxLength,
                   excludeByContent |-> TRUE, excludeByFrameName |-> TRUE,
                   removeDuplicates |-> TRUE, contextAwareDuplicates |-> TRUE]
    /\ fpc = "idle"
    /\ fResult = NoFilterResult

FilterTextNodesReturns ==
    /\ fpc = "ready"
    /\ UNCHANGED notFil
    /\ fResult' = filterTextNodes(fNodes, fOptions)
    /\ fpc' = "done"
    /\ UNCHANGED <<fNodes, fOptions>>

FilNext == FilterTextNodesReturns

----------------------------------------------------------------------------
(* removeDuplicateTexts as an operation *)

XFrame == <<"X">>
RootName == <<"r", "o", "o", "t">>
CardAThenBody == <<"C", "a", "r", "d", " ", "A", " ", ">", " ", "B", "o", "d", "y">>

\* Records with one text under paths that agree or differ in their last two
\* segments, and one record with another text.
DedupePool ==
    { TextRecord(Home, <<CardA, Body>>, <<"4", ":", "1">>),
      TextRecord(Home, <<CardB, Body>>, <<"4", ":", "2">>),
      TextRecord(Home, <<XFrame, CardA, Body>>, <<"4", ":", "3">>),
      TextRecord(Home, <<CardAThenBody>>, <<"4", ":", "4">>),
      TextRecord(Home, <<RootName>>, <<"4", ":", "5">>),
      [text |-> Home, frameName |-> Root, framePath |-> <<>>, nodeId |-> <<"4", ":", "6">>],
      TextRecord(<<"<ho>", "<mu>">>, <<CardA, Body>>, <<"4", ":", "7">>) }

DedInit ==
    /\ dNodes \in BoundedSeqs(DedupePool, MaxDedupeNodes)
    /\ dContextAware \in BOOLEAN
    /\ dpc = "ready"
    /\ dResult = <<>>

DedIdle ==
    /\ dNodes = <<>>
    /\ dContextAware = TRUE
    /\ dpc = "idle"
    /\ dResult = <<>>

RemoveDuplicateTextsReturns ==
    /\ dpc = "ready"
    /\ UNCHANGED notDed
    /\ dResult' = removeDuplicateTexts(dNodes, dContextAware)
    /\ dpc' = "done"
    /\ UNCHANGED <<dNodes, dContextAware>>

DedNext == RemoveDuplicateTextsReturns

----------------------------------------------------------------------------
(* filterNewTexts *)

\* obj === text
sameTextIgnoringCase(obj, text) == toLowerCase(obj) = toLowerCase(text)
sameText(obj, text) == obj = text

RECURSIVE search(_, _)
RECURSIVE searchKeys(_, _, _)
\* The inner function of findTextInJson.
search(obj, text) ==
    IF obj.t = "str" THEN sameText(obj.s, text)
    ELSE IF obj.t = "obj" THEN searchKeys(obj.m, SeqOf(DOMAIN obj.m), text)
    ELSE FALSE

\* Its for-in loop over the keys still to visit.
searchKeys(m, keys, text) ==
    IF keys = <<>> THEN FALSE
    ELSE IF search(m[Head(keys)], text) THEN TRUE
    ELSE searchKeys(m, Tail(keys), text)

findTextInJson(text, json) == search(Obj(json), text)

filterNewTexts(list, json) ==
    SelectSeqIdx(list, {n \in 1..Len(list) : ~findTextInJson(list[n].text, json)}, 1)

T1Upper == <<"H", "o">>
T1Padded == <<" ", "h", "o">>

NewPool ==
    { R1, R2,
      TextRecord(T1Upper, <<CardA>>, <<"5", ":", "1">>),
      TextRecord(T1Padded, <<CardA>>, <<"5", ":", "2">>) }

\* {}, {"a": "ho"}, {"a": {"b": {"c": "ho"}}}, {"a": "me", "b": {"c": " ho"}},
\* {"ho": "Ho"}, {"a": {}}
JsonPool ==
    { EmptyMap,
      Ka :> Str(T1),
      Ka :> Obj(Kb :> Obj(Kc :> Str(T1))),
      (Ka :> Str(T2)) @@ (Kb :> Obj(Kc :> Str(T1Padded))),
      T1 :> Str(T1Upper),
      Ka :> Obj(EmptyMap) }

NewInit ==
    /\ nNodes \in BoundedSeqs(NewPool, MaxNewNodes)
    /\ jpJson \in JsonPool
    /\ npc = "ready"
    /\ nResult = <<>>

NewIdle ==
    /\ nNodes = <<>>
    /\ jpJson = EmptyMap
    /\ npc = "idle"
    /\ nResult = <<>>

FilterNewTextsReturns ==
    /\ npc = "ready"
    /\ UNCHANGED notNew
    /\ nResult' = filterNewTexts(nNodes, jpJson)
    /\ npc' = "done"
    /\ UNCHANGED <<nNodes, jpJson>>

NewNext == FilterNewTextsReturns

----------------------------------------------------------------------------
(* The users table and authentication: lib/db.ts, lib/auth.ts *)

ADMIN_EMAIL ==
    <<"m", "a", "l", "i", "t", "h", ".", "t", "e", "n", "n", "a", "k", "o", "o", "n", "@",
      "r", "h", "i", "n", "o", "-", "p", "a", "r", "t", "n", "e", "r", "s", ".", "c", "o", "m">>

\* email.toLowerCase().trim()
normalizeEmail(email) == trim(toLowerCase(email))

isAdmin(email) == normalizeEmail(email) = toLowerCase(ADMIN_EMAIL)

\* /^[^\s@]+@[^\s@]+\.[^\s@]+$/
emailRegexTest(s) ==
    LET parts == splitOn(s, "@")
    IN /\ \A n \in 1..Len(s) : s[n] \notin WhiteSpace
       /\ Len(parts) = 2
       /\ parts[1] # <<>>
       /\ \E k \in 2..(Len(parts[2]) - 1) : parts[2][k] = "."

\* The outcome of the tagged sql queries of one call: they run, or they reject with
\* an error whose message is none of those the callers look for.
SqlOutcomes == {"ok", "error"}

EmptyTable == <<>>
NoRow == [email |-> <<>>, role |-> "none"]
Row(email, table) == [email |-> email, role |-> table[email]]

DbOk(table, row) == [users |-> table, ok |-> TRUE, row |-> row, error |-> "none"]
DbThrows(table, message) == [users |-> table, ok |-> FALSE, row |-> NoRow, error |-> message]

isUserInDatabase(email, table, sql) ==
    IF sql = "error" THEN FALSE ELSE normalizeEmail(email) \in DOMAIN table

getOrCreateUserForAnyone(email, table, sql) ==
    LET normalizedEmail == normalizeEmail(email)
    IN IF sql = "error"
       THEN DbThrows(table, "Unable to verify your email at this time. Please try again later.")
       ELSE IF normalizedEmail \in DOMAIN table THEN DbOk(table, Row(normalizedEmail, table))
       ELSE LET inserted == (normalizedEmail :> "admin") @@ table
            IN DbOk(inserted, Row(normalizedEmail, inserted))
getOrCreateUser(email, table, sql) ==
    LET normalizedEmail == normalizeEmail(email)
    IN IF sql = "error"
       THEN DbThrows(table, "Unable to verify your email at this time. Please try again later.")
       ELSE IF normalizedEmail \in DOMAIN table THEN DbOk(table, Row(normalizedEmail, table))
       ELSE IF isAdmin(normalizedEmail)
            THEN LET inserted == (normalizedEmail :> "admin") @@ table
                 IN DbOk(inserted, Row(normalizedEmail, inserted))
       ELSE DbThrows(table, "User not found. Please contact your administrator to get access.")

addUser(email, role, table, sql) ==
    LET normalizedEmail == normalizeEmail(email)
    IN IF sql = "error" THEN DbThrows(table, "Unable to add user. Please try again later.")
       ELSE IF normalizedEmail \in DOMAIN table THEN DbThrows(table, "User already exists")
       ELSE LET inserted == (normalizedEmail :> role) @@ table
            IN DbOk(inserted, Row(normalizedEmail, inserted))

RECURSIVE bulkAddUsers(_, _, _, _)
\* The table after the loop, and the lists added, existing and failed.
bulkAddUsers(emails, role, table, sql) ==
    IF emails = <<>>
    THEN [users |-> table, added |-> <<>>, existing |-> <<>>, failed |-> <<>>]
    ELSE LET normalizedEmail == normalizeEmail(Head(emails))
             one  == addUser(normalizedEmail, role, table, sql)
             rest == bulkAddUsers(Tail(emails), role, one.users, sql)
         IN [users |-> rest.users,
             added |-> (IF one.ok THEN <<normalizedEmail>> ELSE <<>>) \o rest.added,
             existing |-> (IF one.error = "User already exists"
                           THEN <<normalizedEmail>> ELSE <<>>) \o rest.existing,
             failed |-> (IF ~one.ok /\ one.error # "User already exists"
                         THEN <<normalizedEmail>> ELSE <<>>) \o rest.failed]

updateUserRole(email, role, table, sql) ==
    LET normalizedEmail == normalizeEmail(email)
    IN IF sql = "error"
       THEN DbThrows(table, "Unable to update user role. Please try again later.")
       ELSE IF normalizedEmail \notin DOMAIN table THEN DbThrows(table, "User not found")
       ELSE LET updated == [table EXCEPT ![normalizedEmail] = role]
            IN DbOk(updated, Row(normalizedEmail, updated))

deleteUserUnguarded(email, table, sql) ==
    LET normalizedEmail == normalizeEmail(email)
    IN IF sql = "error" THEN DbThrows(table, "Unable to delete user. Please try again later.")
       ELSE IF normalizedEmail \notin DOMAIN table THEN DbThrows(table, "User not found")
       ELSE DbOk([e \in DOMAIN table \ {normalizedEmail} |-> table[e]],
                 Row(normalizedEmail, table))
deleteUser(email, table, sql) ==
    LET normalizedEmail == normalizeEmail(email)
    IN IF normalizedEmail = toLowerCase(ADMIN_EMAIL)
       THEN DbThrows(table, "Cannot delete the main admin account")
       ELSE IF sql = "error" THEN DbThrows(table, "Unable to delete user. Please try again later.")
       ELSE IF normalizedEmail \notin DOMAIN table THEN DbThrows(table, "User not found")
       ELSE DbOk([e \in DOMAIN table \ {normalizedEmail} |-> table[e]],
                 Row(normalizedEmail, table))

AuthResult(authenticated, email, role, error) ==
    [authenticated |-> authenticated, email |-> email, role |-> role, error |-> error]

verifyUserEmail(email, table, sql) ==
    LET normalizedEmail == normalizeEmail(email)
    IN IF email = <<>> THEN AuthResult(FALSE, <<>>, "none", "Email is required")
       ELSE IF ~emailRegexTest(normalizedEmail)
            THEN AuthResult(FALSE, <<>>, "none", "Invalid email format")
       ELSE IF ~isUserInDatabase(normalizedEmail, table, sql)
            THEN AuthResult(FALSE, <<>>, "none",
                     "User not found. Please contact your administrator to get access.")
       ELSE AuthResult(TRUE, normalizedEmail,
                       IF isAdmin(normalizedEmail) THEN "admin" ELSE "user", "none")

verifyAdminAccess(email, table, sql) ==
    LET authResult == verifyUserEmail(email, table, sql)
    IN IF ~authResult.authenticated THEN authResult
       ELSE IF authResult.role # "admin"
            THEN AuthResult(FALSE, <<>>, "none", "Unauthorized: Admin access required")
       ELSE authResult

----------------------------------------------------------------------------
(* Requests and responses *)

Missing == <<>>
Malformed == <<"a", "@", "x">>
AdminTyped == <<"M">> \o Tail(ADMIN_EMAIL)
Alice == <<" ", "a", "@", "x", ".", "i", "o">>
Bob == <<"b", "@", "x", ".", "i", "o">>

EmailPool == {Missing, Malformed, AdminTyped, Alice, Bob}
TargetPool == {Missing, AdminTyped, Alice}
\* The main admin's address typed in lower case with surrounding whitespace.
AdminPadded == <<" ">> \o ADMIN_EMAIL \o <<" ", " ">>
DeleteTargets == TargetPool \cup {AdminPadded}
\* Alice's address as the table stores it.
AliceStored == normalizeEmail(Alice)
VerifyEmails == EmailPool \cup {AliceStored}
\* Roles a request body can carry; "" stands for a body without role.
RolePool == {"", "admin", "user", "root"}

NotGiven == [given |-> FALSE, list |-> <<>>]
Given(list) == [given |-> TRUE, list |-> list]

DataNone == [kind |-> "none"]
Response(status, error, data) == [status |-> status, error |-> error, data |-> data]
Success(data) == Response(200, "none", data)
Failure(status, error) == Response(status, error, DataNone)

\* A request is recorded with the users table it found (found) beside its inputs.
NoRequest == [op |-> "none"]
NoResponse == Response(0, "none", DataNone)

Unauthorized == Failure(403, "Unauthorized: Admin access required")

\* ORDER BY created_at DESC
Reverse(rows) == [n \in 1..Len(rows) |-> rows[Len(rows) + 1 - n]]

\* Tables the user administration leaves behind.
ApiTables ==
    { EmptyTable,
      toLowerCase(ADMIN_EMAIL) :> "admin",
      (toLowerCase(ADMIN_EMAIL) :> "admin") @@ (normalizeEmail(Alice) :> "user") }

ApiInit ==
    /\ users \in ApiTables
    /\ usageLogs = <<>>
    /\ req = NoRequest
    /\ resp = NoResponse
    /\ effects = <<>>

SrvInit ==
    /\ users = EmptyTable
    /\ usageLogs = <<>>
    /\ req = NoRequest
    /\ resp = NoResponse
    /\ effects = <<>>

----------------------------------------------------------------------------
(* /api/users and /api/usage (GET), /api/auth/verify *)

UsersGet ==
    \E adminEmail \in EmailPool, sql \in SqlOutcomes :
        /\ UNCHANGED notSrv
        /\ req' = [op |-> "GET /api/users", found |-> users, adminEmail |-> adminEmail, sql |-> sql]
        /\ IF adminEmail = Missing \/ ~isAdmin(adminEmail)
           THEN resp' = Unauthorized /\ effects' = <<>>
           ELSE /\ effects' = <<"sql:users">>
                /\ resp' = IF sql = "error"
                           THEN Failure(500, "Unable to load users. Please try again later.")
                           ELSE Success([kind |-> "users", users |-> users])
        /\ UNCHANGED <<users, usageLogs>>

UsersPost ==
    \E adminEmail \in EmailPool, email \in TargetPool,
       emails \in {NotGiven, Given(<<Alice, AdminTyped>>)},
       bodyRole \in RolePool, sql \in SqlOutcomes :
        LET role == IF bodyRole = "" THEN "user" ELSE bodyRole
            bulk == bulkAddUsers(emails.list, role, users, sql)
            one  == addUser(email, role, users, sql)
        IN /\ UNCHANGED notSrv
           /\ req' = [op |-> "POST /api/users", found |-> users, adminEmail |-> adminEmail, email |-> email,
                      emails |-> emails, role |-> bodyRole, sql |-> sql]
           /\ IF adminEmail = Missing \/ ~isAdmin(adminEmail)
              THEN resp' = Unauthorized /\ effects' = <<>> /\ UNCHANGED users
              ELSE IF emails.given
              THEN /\ resp' = Success([kind |-> "bulk", added |-> bulk.added,
                                       existing |-> bulk.existing, failed |-> bulk.failed])
                   /\ effects' = <<"sql:users">>
                   /\ users' = bulk.users
              ELSE IF email = Missing
              THEN resp' = Failure(400, "Email is required") /\ effects' = <<>>
                   /\ UNCHANGED users
              ELSE /\ resp' = IF one.ok THEN Success([kind |-> "user", user |-> one.row])
                              ELSE Failure(500, one.error)
                   /\ effects' = <<"sql:users">>
                   /\ users' = one.users
           /\ UNCHANGED usageLogs

UsersPatch ==
    \E adminEmail \in EmailPool, email \in TargetPool, role \in RolePool,
       sql \in SqlOutcomes :
        LET updated == updateUserRole(email, role, users, sql)
        IN /\ UNCHANGED notSrv
           /\ req' = [op |-> "PATCH /api/users", found |-> users, adminEmail |-> adminEmail, email |-> email,
                      role |-> role, sql |-> sql]
           /\ IF adminEmail = Missing \/ ~isAdmin(adminEmail)
              THEN resp' = Unauthorized /\ effects' = <<>> /\ UNCHANGED users
              ELSE IF email = Missing \/ role = ""
              THEN resp' = Failure(400, "Email and role are required") /\ effects' = <<>>
                   /\ UNCHANGED users
              ELSE IF role # "admin" /\ role # "user"
              THEN resp' = Failure(400, "Role must be either \"admin\" or \"user\"")
                   /\ effects' = <<>> /\ UNCHANGED users
              ELSE /\ resp' = IF updated.ok THEN Success([kind |-> "user", user |-> updated.row])
                              ELSE Failure(500, updated.error)
                   /\ effects' = <<"sql:users">>
                   /\ users' = updated.users
           /\ UNCHANGED usageLogs

UsersDelete ==
    \E adminEmail \in EmailPool, email \in DeleteTargets, sql \in SqlOutcomes :
        LET deleted == deleteUser(email, users, sql)
        IN /\ UNCHANGED notSrv
           /\ req' = [op |-> "DELETE /api/users", found |-> users, adminEmail |-> adminEmail,
                      email |-> email, sql |-> sql]
           /\ IF adminEmail = Missing \/ ~isAdmin(adminEmail)
              THEN resp' = Unauthorized /\ effects' = <<>> /\ UNCHANGED users
              ELSE IF email = Missing
              THEN resp' = Failure(400, "Email is required") /\ effects' = <<>>
                   /\ UNCHANGED users
              ELSE /\ resp' = IF deleted.ok THEN Success([kind |-> "user", user |-> deleted.row])
                              ELSE Failure(500, deleted.error)
                   /\ effects' = IF normalizeEmail(email) = toLowerCase(ADMIN_EMAIL)
                                 THEN <<>> ELSE <<"sql:users">>
                   /\ users' = deleted.users
           /\ UNCHANGED usageLogs

UsageGet ==
    \E email \in EmailPool, isAdminView \in BOOLEAN, sql \in SqlOutcomes :
        LET own == SelectSeqIdx(usageLogs, {n \in 1..Len(usageLogs) :
                       usageLogs[n].user_email = normalizeEmail(email)}, 1)
        IN /\ UNCHANGED notSrv
           /\ req' = [op |-> "GET /api/usage", found |-> users, email |-> email, admin |-> isAdminView,
                      sql |-> sql]
           /\ IF email = Missing
              THEN resp' = Failure(400, "Email is required") /\ effects' = <<>>
              ELSE IF isAdminView /\ ~isAdmin(email)
              THEN resp' = Unauthorized /\ effects' = <<>>
              ELSE /\ effects' = <<"sql:usage_logs">>
                   /\ resp' = IF sql = "error"
                              THEN Failure(500, "Unable to load usage data. Please try again later.")
                              ELSE IF isAdminView
                              THEN Success([kind |-> "allLogs", logs |-> Reverse(usageLogs)])
                              ELSE Success([kind |-> "ownLogs", logs |-> Reverse(own)])
           /\ UNCHANGED <<users, usageLogs>>

AuthVerifyPost ==
    \E email \in VerifyEmails, sql \in SqlOutcomes :
        LET user == getOrCreateUser(email, users, sql)
        IN /\ UNCHANGED notSrv
           /\ req' = [op |-> "POST /api/auth/verify", found |-> users, email |-> email, sql |-> sql]
           /\ IF email = Missing
              THEN resp' = Failure(400, "Email is required") /\ effects' = <<>>
                   /\ UNCHANGED users
              ELSE IF ~emailRegexTest(email)
              THEN resp' = Failure(400, "Invalid email format") /\ effects' = <<>>
                   /\ UNCHANGED users
              ELSE /\ resp' = IF user.ok THEN Success([kind |-> "user", user |-> user.row])
                              ELSE Failure(500, user.error)
                   /\ effects' = <<"sql:users">>
                   /\ users' = user.users
           /\ UNCHANGED usageLogs

----------------------------------------------------------------------------
(* /api/generate-keys *)

\* estimateCost, in units of 1e-8 USD: $0.150 and $0.600 per million tokens.
estimateCost(inputTokens, outputTokens) == inputTokens * 15 + outputTokens * 60

\* logUsage: the table afterwards and the inserted row, or null.
NoLog == [user_email |-> <<>>, figma_url |-> FALSE, extracted_texts_count |-> 0,
          prompt_tokens |-> 0, completion_tokens |-> 0, total_tokens |-> 0, cost |-> 0]
logUsage(data, logs, sql) ==
    IF sql = "error" THEN [logs |-> logs, row |-> NoLog]
    ELSE LET row == [user_email |-> data.userEmail, figma_url |-> data.figmaUrl,
                     extracted_texts_count |-> data.extractedTextsCount,
                     prompt_tokens |-> data.promptTokens,
                     completion_tokens |-> data.completionTokens,
                     total_tokens |-> data.totalTokens, cost |-> data.cost]
         IN [logs |-> Append(logs, row), row |-> row]

\* What awaiting generateKeysInBatches gives: its return value, or its error.
GenOutcomes ==
    { [ok |-> TRUE, error |-> "none",
       ret |-> [returned |-> TRUE, generatedKeys |-> Ma,
                tokenUsage |-> [promptTokens |-> 2, completionTokens |-> 1, totalTokens |-> 3]]],
      [ok |-> FALSE, error |-> "Invalid JSON response from OpenAI", ret |-> NoReturn] }

GenerateBody(nodeList, contextSample, apiKey, figmaUrl) ==
    [nodes |-> nodeList, contextSample |-> contextSample, apiKey |-> apiKey,
     figmaUrl |-> figmaUrl]

\* A complete body, and bodies that lack one field each (for apiKey: neither
\* openaiApiKey nor OPENAI_API_KEY is there).
GenerateBodies ==
    { GenerateBody(<<R1>>, TRUE, TRUE, TRUE), GenerateBody(<<>>, TRUE, TRUE, TRUE),
      GenerateBody(<<R1>>, FALSE, TRUE, TRUE), GenerateBody(<<R1>>, TRUE, FALSE, TRUE),
      GenerateBody(<<R1>>, TRUE, TRUE, FALSE) }

\* The response after the logging block: built from result alone.
responseIfLogged(logged, result, count) ==
    IF logged = NoLog THEN Failure(500, "Error logging usage")
    ELSE Success([kind |-> "keys", generatedKeys |-> result.generatedKeys, count |-> count,
                  tokenUsage |-> result.tokenUsage])
responseAfterLogging(logged, result, count) ==
    Success([kind |-> "keys", generatedKeys |-> result.generatedKeys, count |-> count,
             tokenUsage |-> result.tokenUsage])

PostGenerateKeys ==
    \E body \in GenerateBodies, userEmail \in EmailPool, sqlAuth \in SqlOutcomes,
       sqlLog \in SqlOutcomes, gen \in GenOutcomes :
        LET authResult == verifyUserEmail(userEmail, users, sqlAuth)
            asked  == IF userEmail # Missing /\ emailRegexTest(normalizeEmail(userEmail))
                      THEN <<"sql:users">> ELSE <<>>
            result == gen.ret
            logs   == userEmail # Missing /\ body.figmaUrl
            logged == logUsage([userEmail |-> userEmail, figmaUrl |-> body.figmaUrl,
                                extractedTextsCount |-> Len(body.nodes),
                                promptTokens |-> result.tokenUsage.promptTokens,
                                completionTokens |-> result.tokenUsage.completionTokens,
                                totalTokens |-> result.tokenUsage.totalTokens,
                                cost |-> estimateCost(result.tokenUsage.promptTokens,
                                                      result.tokenUsage.completionTokens)],
                               usageLogs, sqlLog)
        IN /\ Len(usageLogs) < MaxLogs
           /\ UNCHANGED notSrv
           /\ req' = [op |-> "POST /api/generate-keys", found |-> users, userEmail |-> userEmail,
                      body |-> body, sqlAuth |-> sqlAuth, sqlLog |-> sqlLog, gen |-> gen]
           /\ IF ~authResult.authenticated
              THEN resp' = Failure(401, authResult.error) /\ effects' = asked
                   /\ UNCHANGED usageLogs
              ELSE IF body.nodes = <<>>
              THEN resp' = Failure(400, "Text nodes are required") /\ effects' = asked
                   /\ UNCHANGED usageLogs
              ELSE IF ~body.contextSample
              THEN resp' = Failure(400, "Context sample is required") /\ effects' = asked
                   /\ UNCHANGED usageLogs
              ELSE IF ~body.apiKey
              THEN resp' = Failure(400, "OpenAI API key is required") /\ effects' = asked
                   /\ UNCHANGED usageLogs
              ELSE IF ~gen.ok
              THEN resp' = Failure(500, gen.error) /\ effects' = asked \o <<"llm">>
                   /\ UNCHANGED usageLogs
              ELSE IF logs
              THEN /\ resp' = responseAfterLogging(logged.row, result, Len(body.nodes))
                   /\ effects' = asked \o <<"llm", "sql:usage_logs">>
                   /\ usageLogs' = logged.logs
              ELSE /\ resp' = responseAfterLogging(NoLog, result, Len(body.nodes))
                   /\ effects' = asked \o <<"llm">>
                   /\ UNCHANGED usageLogs
           /\ UNCHANGED users

----------------------------------------------------------------------------
(* language.ts: isJapanese, isEnglish, filterJapaneseText *)

\* Stand-ins for characters of [U+3040-U+309F U+30A0-U+30FF U+4E00-U+9FAF].
JapaneseRange == {"<hiragana>", "<katakana>", "<kanji>", "<ho>", "<cho>", "<mu>"}

\* [a-zA-Z0-9\s.,!?;:'"()\-]
EnglishChars ==
    DOMAIN UpperToLower \cup {UpperToLower[c] : c \in DOMAIN UpperToLower} \cup Digits
        \cup WhiteSpace \cup {".", ",", "!", "?", ";", ":", "'", "\"", "(", ")", "-"}

isJapanese(text) == \E n \in 1..Len(text) : text[n] \in JapaneseRange

isEnglish(text) == OnlyFrom(trim(text), EnglishChars)

filterJapaneseText(list) ==
    LET Keep(node) == /\ ~(node.text = <<>> \/ jsLength(node.text) < 1)
                      /\ ~isEnglish(node.text)
                      /\ isJapanese(node.text)
    IN SelectSeqIdx(list, {n \in 1..Len(list) : Keep(list[n])}, 1)

----------------------------------------------------------------------------
(* /api/figma *)

\* A fetch settles with an HTTP answer or rejects (a TypeError).
HttpAnswer(status, statusText) == [rejected |-> FALSE, status |-> status, statusText |-> statusText]
Rejected == [rejected |-> TRUE, status |-> 0, statusText |-> "fetch failed"]
NotFetched == [rejected |-> FALSE, status |-> 0, statusText |-> "not fetched"]
HttpAnswers ==
    { HttpAnswer(200, "OK"), HttpAnswer(403, "Forbidden"), HttpAnswer(404, "Not Found"),
      HttpAnswer(500, "Internal Server Error"), Rejected }

\* Response.ok
IsOk(response) == ~response.rejected /\ response.status \in 200..299

ServedFile ==
    [document |-> FullDoc("FRAME", "INSTANCE", <<IdA, IdC>>, Other, "absent", "absent", Ho, "absent"),
     name |-> <<"f">>]
NoFile == [document |-> NoFigmaNode, name |-> <<>>]

FetchOk(file) == [ok |-> TRUE, file |-> file, error |-> "none"]
FetchThrows(message) == [ok |-> FALSE, file |-> NoFile, error |-> message]

AccessDenied == "Access denied. This file may be private or the API token is invalid."
UnableToAccess == "Unable to access this Figma file. Please ensure the file URL is correct and the file is set to \"Anyone with the link can view\" in Figma sharing settings."
FailedToFetch(statusText) == "Failed to fetch Figma file: " \o statusText

fetchFigmaFile(apiToken, publicResponse, privateResponse, file) ==
    IF publicResponse.rejected THEN FetchThrows(publicResponse.statusText)
    ELSE IF IsOk(publicResponse) THEN FetchOk(file)
    ELSE IF apiToken
    THEN IF privateResponse.rejected THEN FetchThrows(privateResponse.statusText)
         ELSE IF IsOk(privateResponse) THEN FetchOk(file)
         ELSE IF privateResponse.status = 403 THEN FetchThrows(AccessDenied)
         ELSE FetchThrows(FailedToFetch(privateResponse.statusText))
    ELSE IF publicResponse.status = 403 \/ publicResponse.status = 404
    THEN FetchThrows(UnableToAccess)
    ELSE FetchThrows(FailedToFetch(publicResponse.statusText))

\* The fetches fetchFigmaFile issues.
fetchesOf(apiToken, publicResponse) ==
    IF ~publicResponse.rejected /\ ~IsOk(publicResponse) /\ apiToken
    THEN <<"fetch:figma", "fetch:figma-token">> ELSE <<"fetch:figma">>

\* A Figma URL by what the two extractions read in it: the file id after /file/
\* or /design/ (<<>>: no match) and the value of node-id (<<>>: no parameter).
Url(fileId, nodeIdParam) == [given |-> TRUE, fileId |-> fileId, nodeIdParam |-> nodeIdParam]
NoUrl == [given |-> FALSE, fileId |-> <<>>, nodeIdParam |-> <<>>]

extractFigmaFileId(url) == url.fileId

RECURSIVE replaceFirst(_, _, _)
\* String.prototype.replace with a string pattern
replaceFirst(str, from, to) ==
    IF str = <<>> THEN <<>>
    ELSE IF Head(str) = from THEN <<to>> \o Tail(str)
    ELSE <<Head(str)>> \o replaceFirst(Tail(str), from, to)

extractNodeIdFromUrl(url) == replaceFirst(url.nodeIdParam, "-", ":")

FileKey == <<"F", "1">>
FileKeyJa == <<"F", "2">>

Kanji1 == <<"<kanji>">>
Kanji2 == <<"<kanji>", "<hiragana>">>
Kana2 == <<"<katakana>", "<kanji>">>
IconFrame == <<"I", "c", "o", "n">>

\* DOCUMENT > Page 1 > [Card A > [five texts], Icon > [text]]
JapaneseFile ==
    [document |->
        FigmaNode(IdDoc, <<"D">>, "DOCUMENT", <<>>, "absent", TRUE,
          << FigmaNode(IdPage1, <<"P", "1">>, "CANVAS", <<>>, "absent", TRUE,
               << FigmaNode(IdA, CardA, "FRAME", <<>>, "absent", TRUE,
                    << Leaf(<<"6", ":", "1">>, <<"t">>, "TEXT", Home, "absent"),
                       Leaf(<<"6", ":", "2">>, <<"t">>, "TEXT", Ho, "absent"),
                       Leaf(<<"6", ":", "3">>, <<"t">>, "TEXT", Kanji2, "absent"),
                       Leaf(<<"6", ":", "4">>, <<"t">>, "TEXT", Home, "absent"),
                       Leaf(<<"6", ":", "5">>, <<"t">>, "TEXT", Kanji1, "absent") >>),
                  FigmaNode(IdC, IconFrame, "FRAME", <<>>, "absent", TRUE,
                    << Leaf(<<"6", ":", "6">>, <<"t">>, "TEXT", Kana2, "absent") >>) >>) >>),
     name |-> <<"j">>]

\* The file the document source holds under a file id.
servedFileOf(fileId) == IF fileId = FileKeyJa THEN JapaneseFile ELSE ServedFile

\* jpJson of the body: an object, a string that parses to one, or a string that
\* JSON.parse rejects.
JsonObject(map) == [form |-> "object", parses |-> TRUE, map |-> map]
JsonText(map) == [form |-> "string", parses |-> TRUE, map |-> map]
JsonGarbage == [form |-> "string", parses |-> FALSE, map |-> EmptyMap]

\* {"a": Kanji2}
JpKnown == Ka :> Str(Kanji2)

\* enableSmartFilters is "absent", "true" or "false"; jpJson tells a truthy value
\* from a missing or empty one.
FigmaBodyWith(url, jpJsonGiven, json, page, smart) ==
    [figmaUrl |-> url, jpJson |-> jpJsonGiven, jpJsonValue |-> json, pageId |-> page,
     enableSmartFilters |-> smart]
FigmaBody(url, jpJsonGiven, page) ==
    FigmaBodyWith(url, jpJsonGiven, JsonObject(EmptyMap), page, "absent")

FigmaBodies ==
    { FigmaBody(NoUrl, TRUE, <<>>),
      FigmaBody(Url(<<>>, <<>>), TRUE, <<>>),
      FigmaBody(Url(FileKey, <<>>), FALSE, <<>>),
      FigmaBody(Url(FileKey, <<>>), TRUE, <<>>),
      FigmaBody(Url(FileKey, <<>>), TRUE, IdNone),
      FigmaBody(Url(FileKey, <<"1", "-", "2", "3", "4", "5", "6">>), TRUE, IdPage2),
      FigmaBody(Url(FileKey, <<"9", "-", "9">>), TRUE, <<>>),
      FigmaBodyWith(Url(FileKeyJa, <<>>), TRUE, JsonObject(EmptyMap), <<>>, "true"),
      FigmaBodyWith(Url(FileKeyJa, <<>>), TRUE, JsonObject(JpKnown), <<>>, "false"),
      FigmaBodyWith(Url(FileKeyJa, <<>>), TRUE, JsonText(JpKnown), <<>>, "absent"),
      FigmaBodyWith(Url(FileKeyJa, <<>>), TRUE, JsonGarbage, <<>>, "true") }

\* What the document source answers: the second answer exists only when a
\* second fetch is made.
FigmaRuns ==
    { run \in [accessToken : BOOLEAN, public : HttpAnswers, private : HttpAnswers \cup {NotFetched}] :
        (run.private # NotFetched) <=>
            (run.accessToken /\ ~run.public.rejected /\ ~IsOk(run.public)) }

SmartFilterOptions ==
    [minLength |-> 2, excludeByContent |-> TRUE, excludeByFrameName |-> TRUE,
     removeDuplicates |-> TRUE, contextAwareDuplicates |-> TRUE, maxLength |-> 500]

NoFilterStats == [byContent |-> 0, byFrameName |-> 0, byLength |-> 0, duplicates |-> 0]

\* The smart filters are applied whatever enableSmartFilters is.
figmaDataAlwaysFiltered(allTextNodes, enableSmartFilters, parsedJpJson) ==
    LET japaneseNodes == filterJapaneseText(allTextNodes)
        filterResult  == filterTextNodes(japaneseNodes, SmartFilterOptions)
        filteredNodes == filterResult.filtered
        filterStats   == filterResult.excluded
        newNodes      == filterNewTexts(filteredNodes, parsedJpJson)
    IN [allTextNodes |-> allTextNodes,
        totalTextNodes |-> Len(allTextNodes),
        japaneseNodes |-> Len(japaneseNodes),
        filteredNodes |-> Len(filteredNodes),
        newNodes |-> Len(newNodes),
        newTexts |-> newNodes,
        filterStats |-> filterStats]

\* The counts and lists of the response; allTextNodes is a history field, the
\* list extractAllText returned.
figmaData(allTextNodes, enableSmartFilters, parsedJpJson) ==
    LET japaneseNodes == filterJapaneseText(allTextNodes)
        filterResult  == filterTextNodes(japaneseNodes, SmartFilterOptions)
        filteredNodes == IF enableSmartFilters THEN filterResult.filtered ELSE japaneseNodes
        filterStats   == IF enableSmartFilters THEN filterResult.excluded ELSE NoFilterStats
        newNodes      == filterNewTexts(filteredNodes, parsedJpJson)
    IN [allTextNodes |-> allTextNodes,
        totalTextNodes |-> Len(allTextNodes),
        japaneseNodes |-> Len(japaneseNodes),
        filteredNodes |-> Len(filteredNodes),
        newNodes |-> Len(newNodes),
        newTexts |-> newNodes,
        filterStats |-> filterStats]

PostFigma ==
    \E body \in FigmaBodies, userEmail \in {Missing, Alice}, run \in FigmaRuns :
        LET fileId == extractFigmaFileId(body.figmaUrl)
            nodeIdFromUrl == extractNodeIdFromUrl(body.figmaUrl)
            fetched == fetchFigmaFile(run.accessToken, run.public, run.private,
                                      servedFileOf(fileId))
            fetches == fetchesOf(run.accessToken, run.public)
            allTextNodes == extractAllText(fetched.file,
                                IF nodeIdFromUrl # <<>> THEN <<>> ELSE body.pageId,
                                nodeIdFromUrl, TRUE)
            enableSmartFilters == body.enableSmartFilters # "false"
        IN /\ UNCHANGED notSrv
           /\ req' = [op |-> "POST /api/figma", found |-> users, userEmail |-> userEmail,
                      body |-> body, run |-> run]
           /\ IF ~body.figmaUrl.given
              THEN resp' = Failure(400, "Figma URL is required") /\ effects' = <<>>
              ELSE IF ~body.jpJson
              THEN resp' = Failure(400, "Japanese JSON is required") /\ effects' = <<>>
              ELSE IF fileId = <<>>
              THEN resp' = Failure(400, "Invalid Figma URL format") /\ effects' = <<>>
              ELSE IF ~fetched.ok
              THEN resp' = Failure(403, fetched.error) /\ effects' = fetches
              ELSE IF ~allTextNodes.ok
              THEN resp' = Failure(500, allTextNodes.error)
                   /\ effects' = fetches \o <<"extract">>
              ELSE IF ~body.jpJsonValue.parses
              THEN resp' = Failure(500, "Unexpected token")
                   /\ effects' = fetches \o <<"extract">>
              ELSE /\ resp' = Success([kind |-> "figma",
                                       extractionMode |->
                                           IF nodeIdFromUrl # <<>> THEN "node"
                                           ELSE IF body.pageId # <<>> THEN "page"
                                           ELSE "firstPage",
                                       nodeId |-> nodeIdFromUrl]
                                      @@ figmaData(allTextNodes.nodes, enableSmartFilters,
                                                   body.jpJsonValue.map))
                   /\ effects' = fetches \o <<"extract">>
           /\ UNCHANGED <<users, usageLogs>>

----------------------------------------------------------------------------
(* /api/localazy *)

\* How far the handler gets: the token is not configured, one of its fetches is
\* answered with an error or an empty list, or all four fetches succeed.
LocalazyRuns ==
    {"no-token", "projects-failed", "no-projects", "files-failed", "no-files",
     "en-failed", "ja-failed", "ok"}

localazyError(run) ==
    CASE run = "no-token" -> "Localazy API token not configured"
      [] run = "projects-failed" -> "Failed to fetch projects"
      [] run = "no-projects" -> "No projects found in your Localazy account"
      [] run = "files-failed" -> "Failed to fetch files"
      [] run = "no-files" -> "No files found in the project"
      [] run = "en-failed" -> "Failed to fetch English file"
      [] run = "ja-failed" -> "Failed to fetch Japanese file"
      [] OTHER -> "none"

localazyFetches(run) ==
    CASE run = "no-token" -> <<>>
      [] run \in {"projects-failed", "no-projects"} -> <<"fetch:localazy">>
      [] run \in {"files-failed", "no-files"} -> <<"fetch:localazy", "fetch:localazy">>
      [] OTHER -> <<"fetch:localazy", "fetch:localazy", "fetch:localazy", "fetch:localazy">>

GetLocalazy ==
    \E userEmail \in {Missing, Alice}, run \in LocalazyRuns :
        /\ UNCHANGED notSrv
        /\ req' = [op |-> "GET /api/localazy", found |-> users, userEmail |-> userEmail,
                   run |-> run]
        /\ resp' = IF run = "ok" THEN Success([kind |-> "localazy"])
                   ELSE Failure(500, localazyError(run))
        /\ effects' = localazyFetches(run)
        /\ UNCHANGED <<users, usageLogs>>

ApiNext ==
    \/ PostGenerateKeys
    \/ PostFigma
    \/ GetLocalazy

SrvNext ==
    \/ UsersGet
    \/ UsersPost
    \/ UsersPatch
    \/ UsersDelete
    \/ UsageGet
    \/ AuthVerifyPost

----------------------------------------------------------------------------
(* Specifications: one per component *)

\* No helper is called on its own.
NoArgs == [fn |-> "none"]
HlpIdle ==
    /\ hArgs = NoArgs
    /\ hpc = "idle"
    /\ hResult = <<>>

Init ==
    GenInit /\ ExtIdle /\ FilIdle /\ DedIdle /\ NewIdle /\ SrvInit /\ HlpIdle
Next == GenNext
Spec == Init /\ [][Next]_vars

\* The event loop runs every continuation that is ready: each step of the
\* invocation that can be taken eventually is.
FairSpec == Init /\ [][Next]_vars /\ WF_vars(Next)

InitExtract ==
    ExtInit /\ GenIdle /\ FilIdle /\ DedIdle /\ NewIdle /\ SrvInit /\ HlpIdle
NextExtract == ExtNext
SpecExtract == InitExtract /\ [][NextExtract]_vars

InitFilter ==
    FilInit /\ GenIdle /\ ExtIdle /\ DedIdle /\ NewIdle /\ SrvInit /\ HlpIdle
NextFilter == FilNext
SpecFilter == InitFilter /\ [][NextFilter]_vars

InitDedupe ==
    DedInit /\ GenIdle /\ ExtIdle /\ FilIdle /\ NewIdle /\ SrvInit /\ HlpIdle
NextDedupe == DedNext
SpecDedupe == InitDedupe /\ [][NextDedupe]_vars

InitNew ==
    NewInit /\ GenIdle /\ ExtIdle /\ FilIdle /\ DedIdle /\ SrvInit /\ HlpIdle
NextNew == NewNext
SpecNew == InitNew /\ [][NextNew]_vars

\* The server starts on empty tables and serves one request after another.
InitServer ==
    SrvInit /\ GenIdle /\ ExtIdle /\ FilIdle /\ DedIdle /\ NewIdle /\ HlpIdle
NextServer == SrvNext
SpecServer == InitServer /\ [][NextServer]_vars

\* The endpoints of the pipeline, served on a users table the administration left.
InitApi ==
    ApiInit /\ GenIdle /\ ExtIdle /\ FilIdle /\ DedIdle /\ NewIdle /\ HlpIdle
NextApi == ApiNext
SpecApi == InitApi /\ [][NextApi]_vars

----------------------------------------------------------------------------
(* Claims about generateKeysInBatches *)

Returned == gpc = "returned"
Ended == gpc \in {"returned", "failed"}

EmptyAnswer(r) == r.kind = "ok" /\ r.content = "empty"
FatalAnswer(r) == r.kind = "throw" \/ (r.kind = "ok" /\ r.content = "garbage")

RECURSIVE SumCalls(_, _)
SumCalls(F(_), cs) == IF cs = <<>> THEN 0 ELSE F(Head(cs).resp.usage) + SumCalls(F, Tail(cs))
PromptOf(u) == IF u.present THEN u.prompt_tokens ELSE 0
CompletionOf(u) == IF u.present THEN u.completion_tokens ELSE 0
TotalOf(u) == IF u.present THEN u.total_tokens ELSE 0

\* C1: when generateKeysInBatches returns, no leaf key-path of generatedKeys is one
\* of the caller's existingKeys, and no leaf key-path was generated for two
\* different batches, whatever the LLM answered in either pass.
C1_NoGeneratedKeyCollides ==
    Returned =>
        /\ KeySet(ret.generatedKeys) \cap existingKeys = {}
        /\ \A j, k \in 1..Len(results) :
              j # k => KeySet(results[j]) \cap KeySet(results[k]) = {}

\* C2: every leaf key-path that a per-batch output took from the first-pass answer
\* was absent from the registry at the start of that batch, so that a leaf
\* key-path of the returned map that is one of existingKeys came from a retry answer.
C2_FirstPassKeysAreFresh ==
    /\ \A k \in 1..Len(outs) : KeySet(outs[k].first) \cap outs[k].regStart = {}
    /\ Returned =>
          \A p \in KeySet(ret.generatedKeys) \cap existingKeys :
              \E k \in 1..Len(outs) : p \in KeySet(outs[k].retry)

\* C3: after an LLM call, first-pass or retry, that answered with empty or missing
\* content, the invocation never completes successfully.
C3_EmptyContentIsFatal ==
    (\E n \in 1..Len(calls) : EmptyAnswer(calls[n].resp)) => ~Returned

\* C4: an LLM call that throws, or an answer that is not JSON, ends the invocation
\* with an error: nothing is returned and that call is the last one issued.
C4_FailureAbortsEverything ==
    \A n \in 1..Len(calls) :
        FatalAnswer(calls[n].resp) =>
            /\ n = Len(calls)
            /\ gpc = "failed"
            /\ err # NoError
            /\ ret = NoReturn

\* C4 witness: batch 2 fails in its retry call after batch 1 was accepted.
C4_Witness ==
    /\ gpc = "failed"
    /\ Len(results) >= 1
    /\ calls[Len(calls)].pass = "retry"
    /\ FatalAnswer(calls[Len(calls)].resp)

\* C5: the token usage returned is, counter by counter, the sum of what the
\* provider reported over every LLM call of the invocation.
C5_TokenUsageIsSumOverCalls ==
    Returned =>
        /\ ret.tokenUsage.promptTokens = SumCalls(PromptOf, calls)
        /\ ret.tokenUsage.completionTokens = SumCalls(CompletionOf, calls)
        /\ ret.tokenUsage.totalTokens = SumCalls(TotalOf, calls)

\* C6: for every record list and every batch size an invocation eventually ends,
\* by returning or by raising an error (checked under FairSpec).
C6_InvocationEnds == <>Ended

----------------------------------------------------------------------------
(* Claims about the document tree extractor *)

RECURSIVE AllNodes(_)
\* The nodes of the subtree of a node, the node included.
AllNodes(node) ==
    {node} \cup (IF node.hasChildren
                 THEN UNION {AllNodes(node.children[n]) : n \in 1..Len(node.children)}
                 ELSE {})

IdsUnder(node) == {n.id : n \in AllNodes(node)}
TextIds(node) == {n.id : n \in {m \in AllNodes(node) : m.type = "TEXT" /\ m.characters # <<>>}}
HiddenIds(node) == UNION {IdsUnder(n) : n \in {m \in AllNodes(node) : m.visible = "false"}}
EmittedIds == {xResult[n].nodeId : n \in 1..Len(xResult)}

RECURSIVE WithoutFlags(_)
\* The same subtree with every visible flag removed.
WithoutFlags(node) ==
    [node EXCEPT !.visible = "absent",
                 !.children = [n \in 1..Len(node.children) |-> WithoutFlags(node.children[n])]]

\* The node extractAllText starts from, by the priority nodeId, pageId, first page.
ScopeRoot ==
    IF nodeId # <<>> THEN findNodeById(figmaFile.document, nodeId)
    ELSE IF ~figmaFile.document.hasChildren THEN NoFigmaNode
    ELSE IF pageId # <<>> THEN findPage(figmaFile.document.children, pageId)
    ELSE IF figmaFile.document.children # <<>> THEN figmaFile.document.children[1]
    ELSE NoFigmaNode

\* C7: the records emitted under two sibling INSTANCE or COMPONENT nodes of the
\* same name and different ids have different framePath values.
C7_SiblingInstancesGetDistinctPaths ==
    xpc = "done" =>
        \A parent \in AllNodes(figmaFile.document) :
            \A a, b \in 1..Len(parent.children) :
                LET X == parent.children[a]
                    Y == parent.children[b]
                IN (/\ a # b
                    /\ X.type \in {"INSTANCE", "COMPONENT"}
                    /\ Y.type \in {"INSTANCE", "COMPONENT"}
                    /\ X.name = Y.name
                    /\ X.id # Y.id)
                   => \A r1, r2 \in Range(xResult) :
                          (r1.nodeId \in IdsUnder(X) /\ r2.nodeId \in IdsUnder(Y))
                          => r1.framePath # r2.framePath

\* C8: with onlyVisible, no record comes from a node marked not visible or from its
\* subtree, and every text node outside such subtrees is emitted; without
\* onlyVisible the output is the one of the same tree without any visible flag.
C8_HiddenSubtreesAreSkipped ==
    (xpc = "done" /\ ScopeRoot # NoFigmaNode) =>
        IF onlyVisible
        THEN /\ EmittedIds \cap HiddenIds(ScopeRoot) = {}
             /\ TextIds(ScopeRoot) \ HiddenIds(ScopeRoot) \subseteq EmittedIds
        ELSE /\ xResult = extractTextNodes(WithoutFlags(ScopeRoot), <<>>, FALSE)
             /\ EmittedIds = TextIds(ScopeRoot)

\* C8 witness: onlyVisible, a hidden subtree holding a text node, and a record
\* emitted from elsewhere in the scope.
C8_Witness ==
    /\ xpc = "done"
    /\ onlyVisible
    /\ ScopeRoot # NoFigmaNode
    /\ TextIds(ScopeRoot) \cap HiddenIds(ScopeRoot) # {}
    /\ \E n \in AllNodes(ScopeRoot) : n.visible = "false" /\ n.hasChildren
    /\ xResult # <<>>

\* The identifier extractAllText uses: nodeId if given, otherwise pageId.
UsedId == IF nodeId # <<>> THEN nodeId ELSE pageId

\* C9 as claimed: whenever the identifier used is the id of no node of the
\* document, extractAllText fails; it never returns a list.
C9_UnresolvedIdentifierFails ==
    (xpc # "ready" /\ UsedId # <<>> /\ UsedId \notin IdsUnder(figmaFile.document))
        => xpc = "error"

TopLevelIds ==
    {figmaFile.document.children[n].id : n \in 1..Len(figmaFile.document.children)}

\* C9 amended: the scope is chosen by nodeId, then pageId, then the first page. An
\* unresolved nodeId fails; in page scope a document with a children list fails
\* when pageId names none of its direct children (or when the list is empty), and a
\* document without a children list yields the empty list, whatever pageId is.
C9_ScopePriorityAndNotFound ==
    xpc # "ready" =>
        /\ (nodeId # <<>> /\ nodeId \notin IdsUnder(figmaFile.document))
              => (xpc = "error" /\ xErr = "Node with ID not found in Figma file")
        /\ (nodeId = <<>> /\ figmaFile.document.hasChildren
              /\ (IF pageId # <<>> THEN pageId \notin TopLevelIds
                                   ELSE figmaFile.document.children = <<>>))
              => (xpc = "error" /\ xErr = "Page not found")
        /\ (nodeId = <<>> /\ ~figmaFile.document.hasChildren)
              => (xpc = "done" /\ xResult = <<>>)
        /\ ScopeRoot # NoFigmaNode
              => (xpc = "done" /\ xResult = extractTextNodes(ScopeRoot, <<>>, onlyVisible))

\* C9 witness: an unresolved nodeId fails although pageId names a page.
C9_Witness ==
    /\ xpc = "error"
    /\ nodeId # <<>>
    /\ nodeId \notin IdsUnder(figmaFile.document)
    /\ pageId \in TopLevelIds

----------------------------------------------------------------------------
(* Claims about the noise filter *)

RECURSIVE IsSubSeq(_, _)
\* a is b with some elements left out, the order kept.
IsSubSeq(a, b) ==
    IF a = <<>> THEN TRUE
    ELSE IF b = <<>> THEN FALSE
    ELSE IF Head(a) = Head(b) THEN IsSubSeq(Tail(a), Tail(b))
    ELSE IsSubSeq(a, Tail(b))

CountWhere(list, P(_)) == Cardinality({n \in 1..Len(list) : P(list[n])})

\* C10: filtered is an order-preserving sub-list of the input; the four counts and
\* the length of filtered add up to the length of the input; a disabled stage
\* removes nothing and reports zero; each count is what its stage removed from the
\* survivors of the stages before it.
C10_FilterCountsAddUp ==
    fpc = "done" =>
        LET ex == fResult.excluded
            st == fResult.stages
            ByContent(node) == shouldExcludeByContent(node.text)
            ByFrameName(node) == shouldExcludeByFrameName(node.framePath)
            OutOfLength(node) ==
                \/ jsLength(trim(node.text)) < fOptions.minLength
                \/ jsLength(trim(node.text)) > fOptions.maxLength
        IN /\ IsSubSeq(fResult.filtered, fNodes)
           /\ ex.byContent + ex.byFrameName + ex.byLength + ex.duplicates
                + Len(fResult.filtered) = Len(fNodes)
           /\ ~fOptions.excludeByContent => (ex.byContent = 0 /\ st[2] = st[1])
           /\ ~fOptions.excludeByFrameName => (ex.byFrameName = 0 /\ st[3] = st[2])
           /\ ~fOptions.removeDuplicates => (ex.duplicates = 0 /\ st[5] = st[4])
           /\ fOptions.excludeByContent => ex.byContent = CountWhere(st[1], ByContent)
           /\ fOptions.excludeByFrameName => ex.byFrameName = CountWhere(st[2], ByFrameName)
           /\ ex.byLength = CountWhere(st[3], OutOfLength)
           /\ ex.duplicates = Len(st[4]) - Len(st[5])
           /\ st[1] = fNodes /\ st[5] = fResult.filtered
           /\ \A k \in 1..4 : IsSubSeq(st[k + 1], st[k])

\* C10 witness: content exclusion and deduplication both remove a record and one
\* record survives.
C10_Witness ==
    /\ fpc = "done"
    /\ fResult.excluded.byContent > 0
    /\ fResult.excluded.duplicates > 0
    /\ Len(fResult.filtered) > 0

----------------------------------------------------------------------------
(* Claims about removeDuplicateTexts *)

\* The last two segments of a container path (the whole path when shorter).
LastTwo(path) == slice(path, Max(Len(path) - 2, 0), Len(path))

\* The records a deduplication by (text, last two segments) keeps.
KeptByContext(list) ==
    SelectSeqIdx(list, {n \in 1..Len(list) :
        ~\E k \in 1..(n - 1) : /\ list[k].text = list[n].text
                               /\ LastTwo(list[k].framePath) = LastTwo(list[n].framePath)}, 1)

\* The first record of each distinct text.
KeptByText(list) ==
    SelectSeqIdx(list, {n \in 1..Len(list) :
        ~\E k \in 1..(n - 1) : list[k].text = list[n].text}, 1)

\* C11: with contextAware, removeDuplicateTexts removes a record exactly when an
\* earlier record has the same text and the same last two path segments, so
\* records whose paths differ there are both kept; without it, the first record
\* of each distinct text is kept, in the original order.
C11_DedupeByTextAndLastTwoSegments ==
    dpc = "done" =>
        dResult = IF dContextAware THEN KeptByContext(dNodes) ELSE KeptByText(dNodes)

----------------------------------------------------------------------------
(* Claims about filterNewTexts *)

RECURSIVE LeafValues(_)
\* The string leaf values of a JSON value, at any depth.
LeafValues(v) ==
    IF v.t = "str" THEN {v.s}
    ELSE IF v.t = "obj" THEN UNION {LeafValues(v.m[key]) : key \in DOMAIN v.m}
    ELSE {}

\* C12: filterNewTexts keeps exactly the records whose text equals, character for
\* character, no string leaf value of the map at any depth, in input order.
C12_NewIffTextIsNoLeafValue ==
    npc = "done" =>
        nResult = SelectSeqIdx(nNodes,
                      {n \in 1..Len(nNodes) : nNodes[n].text \notin LeafValues(Obj(jpJson))}, 1)

\* C12 witness: a record whose text is a nested leaf value is dropped while the
\* records that differ from it only in case or in padding are kept.
C12_Witness ==
    /\ npc = "done"
    /\ jpJson = Ka :> Obj(Kb :> Obj(Kc :> Str(T1)))
    /\ Len(nNodes) = 3 /\ Len(nResult) = 2
    /\ nNodes[2].text = T1
    /\ nResult[1].text = T1Upper /\ nResult[2].text = T1Padded

----------------------------------------------------------------------------
(* Claims about the server *)

AdminOps == {"GET /api/users", "POST /api/users", "PATCH /api/users", "DELETE /api/users"}

\* The email the request last served gave for its requester, and whether the
\* request asked for an admin-only operation.
Requester == IF req.op \in AdminOps THEN req.adminEmail ELSE req.email
AsksAdminOp == req.op \in AdminOps \/ (req.op = "GET /api/usage" /\ req.admin)

HasAdminRow(email, table) ==
    normalizeEmail(email) \in DOMAIN table /\ table[normalizeEmail(email)] = "admin"

\* The request got past the authorization check of its handler.
Granted == resp.status # 403 /\ Requester # Missing

\* C15: an admin-only operation is let through if and only if the users table,
\* as the request found it, holds a row with role admin for the requester's email.
C15_AdminAccessFollowsUsersTable ==
    AsksAdminOp => (Granted <=> HasAdminRow(Requester, req.found))

\* C13: once generateKeysInBatches has returned, the endpoint answers success with
\* exactly the generated keys and the token usage it returned, whether the
\* usage row was inserted or the insertion failed; and the usage table is written
\* only after a generation that returned.
C13_LoggingFailureNeverChangesResponse ==
    req.op = "POST /api/generate-keys" =>
        /\ ("llm" \in Range(effects) /\ req.gen.ok) =>
              /\ resp.status = 200
              /\ resp.data.generatedKeys = req.gen.ret.generatedKeys
              /\ resp.data.tokenUsage = req.gen.ret.tokenUsage
        /\ "sql:usage_logs" \in Range(effects) =>
              /\ req.gen.ok
              /\ \E n \in 1..Len(effects) : effects[n] = "llm" /\ effects[n + 1] = "sql:usage_logs"

\* C13 witness: the insertion of the usage row failed and the answer is success.
C13_Witness ==
    /\ req.op = "POST /api/generate-keys"
    /\ req.sqlLog = "error"
    /\ "sql:usage_logs" \in Range(effects)
    /\ usageLogs = <<>>
    /\ resp.status = 200

ProtectedOps == {"POST /api/figma", "POST /api/generate-keys", "GET /api/localazy"}

\* The email is well-formed and the users table holds a row for it.
InUsersTable(email, table) ==
    /\ email # Missing
    /\ emailRegexTest(normalizeEmail(email))
    /\ normalizeEmail(email) \in DOMAIN table

Outbound == {"fetch:figma", "fetch:figma-token", "llm", "fetch:localazy"}

\* C14: a request to /api/figma, /api/generate-keys or /api/localazy whose user
\* email is missing, malformed or not in the users table is answered 401 and causes
\* no document fetch, no LLM call and no localization-file fetch.
C14_ProtectedEndpointsVerifyEmail ==
    (req.op \in ProtectedOps /\ ~InUsersTable(req.userEmail, req.found)) =>
        (resp.status = 401 /\ Range(effects) \cap Outbound = {})

\* The answer of the document source that decided a failed fetch.
Deciding == IF req.run.private # NotFetched THEN req.run.private ELSE req.run.public
FetchFailed ==
    /\ req.op = "POST /api/figma"
    /\ "fetch:figma" \in Range(effects)
    /\ (Deciding.rejected \/ ~IsOk(Deciding))

\* C16: when the document source answers 403 or 404, with or without an access
\* token, the error reported is an access-denied / not-found message and not the
\* generic 'Failed to fetch Figma file: <status>'; and every failed fetch makes
\* /api/figma answer with an error without running the extraction.
C16_DeniedAndNotFoundAreDistinguished ==
    FetchFailed =>
        /\ resp.status # 200 /\ resp.error # "none"
        /\ "extract" \notin Range(effects)
        /\ (~Deciding.rejected /\ Deciding.status \in {403, 404}) =>
              /\ resp.error \in {AccessDenied, UnableToAccess}
              /\ resp.error # FailedToFetch(Deciding.statusText)

----------------------------------------------------------------------------
(* Claims about the order of the LLM calls and the per-batch outputs *)

IsFirstPass(c) == c.pass = "first"
IsRetry(c) == c.pass = "retry"
HasResult(c) == c.resp.kind = "ok" /\ c.resp.content = "json"

\* The first-pass result of call c has a leaf key-path in the registry.
Collides(c) == KeySet(c.resp.json) \cap c.registry # {}

RetryFollows(n) ==
    /\ n < Len(calls)
    /\ IsRetry(calls[n + 1])
    /\ calls[n + 1].batch = calls[n].batch

\* The retry call of a batch is issued iff the first-pass result collides.
RetryIffCollision ==
    \A n \in 1..Len(calls) :
        (IsFirstPass(calls[n]) /\ HasResult(calls[n])) =>
            (RetryFollows(n) <=> Collides(calls[n]))

\* At most one retry call per batch, right after the first-pass call of the batch.
RetryOnceAfterFirstPass ==
    /\ \A n \in 1..Len(calls) :
          IsRetry(calls[n]) =>
              /\ n > 1
              /\ IsFirstPass(calls[n - 1])
              /\ calls[n - 1].batch = calls[n].batch
              /\ HasResult(calls[n - 1])
    /\ \A n, m \in 1..Len(calls) :
          (IsRetry(calls[n]) /\ IsRetry(calls[m]) /\ calls[n].batch = calls[m].batch) => n = m

\* When the first-pass call of batch b is issued, the outputs of batches 1..b-1
\* have been appended and their leaf key-paths are in the registry.
BatchesInSequence ==
    \A n \in 1..Len(calls) :
        IsFirstPass(calls[n]) =>
            /\ calls[n].appended = calls[n].batch - 1
            /\ \A b \in 1..(calls[n].batch - 1) :
                  /\ \E k \in 1..calls[n].appended : outs[k].batch = b
                  /\ KeySet(results[b]) \subseteq calls[n].registry

\* C17: a retry call is issued for a batch iff its first-pass result has a leaf
\* key-path in the registry; a batch has at most one retry call, which follows its
\* first-pass call; and the first-pass call of the next batch is issued only after
\* the output of the current batch was appended and its keys added to the registry.
C17_RetryIffCollisionBatchesInSequence ==
    /\ RetryIffCollision
    /\ RetryOnceAfterFirstPass
    /\ BatchesInSequence

\* The values the registry has had, in order: at the issue of call n, and now.
RegistryAt(n) == IF n <= Len(calls) THEN calls[n].registry ELSE allExistingKeys

\* C18: the registry starts as the set of existingKeys, never loses an element
\* (each value includes the one before), and once a batch is processed holds every
\* leaf key-path of the output appended to the result list for that batch.
C18_RegistryGrowsFromExistingKeys ==
    /\ RegistryAt(1) = existingKeys
    /\ \A n \in 1..Len(calls) : RegistryAt(n) \subseteq RegistryAt(n + 1)
    /\ \A k \in 1..Len(results) :
          \A key \in KeySet(results[k]) :
              /\ key \in allExistingKeys
              /\ \A n \in 1..Len(calls) : k <= calls[n].appended => key \in calls[n].registry

\* C18 witness: two batches were processed, the second one regenerated, and the
\* registry holds keys of both outputs beside the caller's existing keys.
C18_Witness ==
    /\ Len(outs) = 2
    /\ outs[2].regenerated
    /\ existingKeys # {}
    /\ KeySet(results[1]) # {}
    /\ KeySet(results[2]) \ (existingKeys \cup KeySet(results[1])) # {}
    /\ gpc = "returned"

RECURSIVE LeafEntriesFrom(_, _, _)
\* The leaves of a map as pairs <<key-path, value>>, walked as extractAllKeys walks.
LeafEntriesFrom(obj, prefix, keys) ==
    IF keys = <<>> THEN {}
    ELSE LET key     == Head(keys)
             fullKey == IF prefix # <<>> THEN prefix \o <<DOT>> \o key ELSE key
         IN (IF obj[key].t = "obj"
             THEN LeafEntriesFrom(obj[key].m, fullKey, SeqOf(DOMAIN obj[key].m))
             ELSE {<<fullKey, obj[key]>>})
            \cup LeafEntriesFrom(obj, prefix, Tail(keys))

LeafEntries(obj) == LeafEntriesFrom(obj, <<>>, SeqOf(DOMAIN obj))

\* The first-pass result of batch b.
FirstPassResult(b) ==
    calls[CHOOSE n \in 1..Len(calls) : IsFirstPass(calls[n]) /\ calls[n].batch = b].resp.json

\* C19: the output appended for a regenerated batch holds every leaf (key-path and
\* value) of the first-pass result whose key-path did not collide, and every entry
\* of the retry result; a colliding first-pass leaf is in it only if the retry
\* result holds that leaf too.
C19_RegeneratedOutputIsKeptPlusRetry ==
    \A k \in 1..Len(outs) :
        outs[k].regenerated =>
            LET first  == FirstPassResult(outs[k].batch)
                second == outs[k].retry
                output == results[k]
            IN /\ \A e \in LeafEntries(first) :
                     e[1] \notin outs[k].regStart => e \in LeafEntries(output)
               /\ \A key \in DOMAIN second :
                     key \in DOMAIN output /\ output[key] = second[key]
               /\ \A e \in LeafEntries(first) :
                     (e[1] \in outs[k].regStart /\ e \in LeafEntries(output))
                         => e \in LeafEntries(second)

\* The batch outputs that have the top-level key.
OutputsWith(key) == {k \in 1..Len(results) : key \in DOMAIN results[k]}
LastOutputWith(key) == CHOOSE k \in OutputsWith(key) : \A j \in OutputsWith(key) : j <= k

\* C20: the map returned has exactly the top-level keys of the per-batch outputs,
\* each with the whole value that the last output holding the key gives it: a
\* nested map of an earlier output under the same key is replaced, not merged.
C20_ReturnedMapIsShallowMergeInBatchOrder ==
    Returned =>
        /\ DOMAIN ret.generatedKeys = UNION {DOMAIN results[k] : k \in 1..Len(results)}
        /\ \A key \in DOMAIN ret.generatedKeys :
              ret.generatedKeys[key] = results[LastOutputWith(key)][key]

\* C20 witness: two outputs hold different nested maps under one top-level key,
\* and the map returned holds the second one.
C20_Witness ==
    /\ Returned
    /\ Len(results) = 2
    /\ \E key \in DOMAIN results[1] \cap DOMAIN results[2] :
          /\ results[1][key].t = "obj"
          /\ results[2][key].t = "obj"
          /\ results[1][key] # results[2][key]
          /\ ret.generatedKeys[key] = results[2][key]

----------------------------------------------------------------------------
(* createNodesForRegeneration called on the first-pass result of one batch *)

MaxRegenNodes == 2

\* A leaf that JSON.parse gives and that is no string: the number 5.
Num(s) == [t |-> "num", s |-> s]
Five == <<"5">>
\* {"a": 5}
Mnum == Ka :> Num(Five)

\* A record whose text is empty, as the extractor gives for blank characters.
REmptyText == [text |-> <<>>, frameName |-> <<"L">>, framePath |-> << <<"L">> >>,
               nodeId |-> <<"1", ":", "4">>]

RegenRecords == {R1, R2, REmptyText}
RegenResults == {Ma, Mab, Mn, Md, Mf, Mb1, Mn2, Mnum}
RegenRegistries == {{Ka}, {Ka, Kabc}, {Kab}, {Kb, Kc \o <<DOT>> \o Ka}}

RegenArgs(batch, parsedResult, registry) ==
    [fn |-> "createNodesForRegeneration", batch |-> batch, parsed |-> parsedResult,
     allExistingKeys |-> registry]

RegenInit ==
    /\ hArgs \in {RegenArgs(b, p, r) : b \in BoundedSeqs(RegenRecords, MaxRegenNodes),
                                       p \in RegenResults, r \in RegenRegistries}
    /\ hpc = "ready"
    /\ hResult = <<>>

\* const duplicates = findDuplicateKeys(parsed, Array.from(allExistingKeys));
\* if (duplicates.length > 0) nodesToRegenerate = createNodesForRegeneration(...)
RegenerationNodesReturn ==
    /\ hpc = "ready"
    /\ UNCHANGED notHlp
    /\ LET dups == findDuplicateKeys(hArgs.parsed, hArgs.allExistingKeys)
       IN /\ Len(dups) > 0
          /\ hResult' = createNodesForRegeneration(hArgs.batch, hArgs.parsed, dups)
    /\ hpc' = "done"
    /\ UNCHANGED hArgs

RegenNext == RegenerationNodesReturn

InitRegen ==
    RegenInit /\ GenIdle /\ ExtIdle /\ FilIdle /\ DedIdle /\ NewIdle /\ SrvInit
NextRegen == RegenNext
SpecRegen == InitRegen /\ [][NextRegen]_vars

----------------------------------------------------------------------------
(* Claims about the regeneration prompt *)

\* The leaves of the first-pass result whose key-path is in the registry.
CollidingLeaves == {e \in LeafEntries(hArgs.parsed) : e[1] \in hArgs.allExistingKeys}

RegenDone == hpc = "done" /\ hArgs.fn = "createNodesForRegeneration" /\ hResult # <<Thrown>>

\* C21: every record of the regeneration prompt is a record of the batch whose
\* text is exactly the leaf value of a colliding key of the first-pass result;
\* a colliding key whose value is the text of no record adds no record, so a
\* record whose text belongs only to keys that did not collide is never there.
C21_RegenerationPromptHoldsCollidingRecords ==
    RegenDone =>
        /\ \A n \in 1..Len(hResult) :
              /\ hResult[n] \in Range(hArgs.batch)
              /\ \E e \in CollidingLeaves : e[2] = Str(hResult[n].text)
        /\ Len(hResult) <= Len(findDuplicateKeys(hArgs.parsed, hArgs.allExistingKeys))

----------------------------------------------------------------------------
(* Claims about the prompts *)

\* The records of batch b, from the arguments alone.
RecordsOfBatch(b) == slice(nodes, (b - 1) * batchSize, b * batchSize)

\* C22: the first-pass prompt of batch b is a function of the records of that
\* batch alone (style sample and flag being fixed), whatever existingKeys holds
\* and whatever was answered before, so two invocations that differ only in
\* those send the same first-pass prompts; key names taken are named in retry
\* prompts only.
C22_FirstPassPromptIgnoresExistingKeys ==
    \A n \in 1..Len(calls) :
        IsFirstPass(calls[n]) =>
            /\ calls[n].prompt = buildPrompt(RecordsOfBatch(calls[n].batch))
            /\ calls[n].prompt.taken = <<>>

\* C22 witness: the first-pass call of batch 2 is issued after batch 1 collided
\* with the caller's existing keys and was regenerated.
C22_Witness ==
    /\ Len(calls) >= 3
    /\ IsRetry(calls[2])
    /\ calls[2].prompt.taken # <<>>
    /\ IsFirstPass(calls[3])
    /\ calls[3].batch = 2
    /\ calls[3].registry # {}
    /\ calls[3].registry # existingKeys

----------------------------------------------------------------------------
(* Claims about the frame path and the text of the records *)

RECURSIVE PathTo(_, _)
\* The nodes from node down to the node of the given id, both included; <<>> if
\* the id is not in the subtree.
PathTo(node, id) ==
    IF node.id = id THEN <<node>>
    ELSE IF node.hasChildren
            /\ \E n \in 1..Len(node.children) : PathTo(node.children[n], id) # <<>>
    THEN <<node>> \o PathTo(node.children[CHOOSE n \in 1..Len(node.children) :
                                              PathTo(node.children[n], id) # <<>>], id)
    ELSE <<>>

IsContainer(node) == node.type \in ContainerTypes
ContainersAbove(id) == SelectSeq(PathTo(ScopeRoot, id), IsContainer)

\* C23: the framePath of a record has one entry for every FRAME, GROUP, COMPONENT
\* and INSTANCE node on the way from the start node down to the text node, in
\* that order, and each entry begins with the display name of its node.
C23_EveryContainerIsOnThePath ==
    (xpc = "done" /\ ScopeRoot # NoFigmaNode) =>
        \A k \in 1..Len(xResult) :
            LET above == ContainersAbove(xResult[k].nodeId)
                path  == xResult[k].framePath
            IN /\ Len(path) = Len(above)
               /\ \A n \in 1..Len(path) : startsWith(path[n], above[n].name)

RECURSIVE PreOrder(_)
RECURSIVE PreOrderOfList(_)
\* The nodes of a subtree, each node before its children, children left to right.
PreOrder(node) ==
    <<node>> \o (IF node.hasChildren THEN PreOrderOfList(node.children) ELSE <<>>)
PreOrderOfList(children) ==
    IF children = <<>> THEN <<>>
    ELSE PreOrder(Head(children)) \o PreOrderOfList(Tail(children))

EmittedIdList == [k \in 1..Len(xResult) |-> xResult[k].nodeId]
PreOrderIds(node) == [k \in 1..Len(PreOrder(node)) |-> PreOrder(node)[k].id]
HasText(node) == node.type = "TEXT" /\ trim(node.characters) # <<>>

\* C24: every record has a trimmed, non-empty text; a TEXT node whose characters
\* are empty or blank gives no record; every TEXT node with non-blank characters
\* that is not in a hidden subtree gives exactly one record; the records come in
\* depth-first pre-order.
C24_RecordsHaveTrimmedNonEmptyText ==
    (xpc = "done" /\ ScopeRoot # NoFigmaNode) =>
        /\ \A k \in 1..Len(xResult) :
              /\ xResult[k].text # <<>>
              /\ xResult[k].text = trim(xResult[k].text)
        /\ \A n \in AllNodes(ScopeRoot) :
              (n.type = "TEXT" /\ ~HasText(n)) => n.id \notin EmittedIds
        /\ \A n \in AllNodes(ScopeRoot) :
              (HasText(n) /\ n.id \notin HiddenIds(ScopeRoot)) =>
                  Cardinality({k \in 1..Len(xResult) : xResult[k].nodeId = n.id}) = 1
        /\ IsSubSeq(EmittedIdList, PreOrderIds(ScopeRoot))

\* C28: with onlyVisible, extractAllText in node scope returns no record from a
\* node inside a subtree of the document whose root is marked not visible, the
\* selected node's own ancestors included.
C28_NodeScopeSkipsHiddenAncestors ==
    (xpc = "done" /\ onlyVisible /\ nodeId # <<>>) =>
        EmittedIds \cap HiddenIds(figmaFile.document) = {}

----------------------------------------------------------------------------
(* Claims about the users table *)

MainAdmin == toLowerCase(ADMIN_EMAIL)

\* The last request reached deleteUser with an address of the main admin.
DeletesMainAdmin ==
    /\ req.op = "DELETE /api/users"
    /\ Requester # Missing
    /\ isAdmin(Requester)
    /\ req.email # Missing
    /\ normalizeEmail(req.email) = MainAdmin

\* C25: the row of the main admin, once in the users table, stays there whatever
\* request is served; deleteUser on the main admin's address, in any letter case
\* and with or without surrounding whitespace, fails with 'Cannot delete the main
\* admin account' and leaves the table as it was.
C25_MainAdminRowIsNeverDeleted ==
    /\ (req.op # "none" /\ MainAdmin \in DOMAIN req.found) => MainAdmin \in DOMAIN users
    /\ DeletesMainAdmin =>
          /\ resp.error = "Cannot delete the main admin account"
          /\ users = req.found

\* C25 witness: the main admin's row is there, with another user's, and a DELETE
\* for the main admin's address with surrounding whitespace was served.
C25_Witness ==
    /\ DeletesMainAdmin
    /\ req.email = AdminPadded
    /\ MainAdmin \in DOMAIN req.found
    /\ normalizeEmail(Alice) \in DOMAIN req.found
    /\ users = req.found

\* The last request reached getOrCreateUser.
CallsGetOrCreateUser ==
    /\ req.op = "POST /api/auth/verify"
    /\ req.email # Missing
    /\ emailRegexTest(req.email)

UserNotFound == "User not found. Please contact your administrator to get access."

\* C26: getOrCreateUser inserts a row only for the main admin's address when it
\* has none, with role admin; for another address without a row it fails with
\* 'User not found...' and changes nothing; for an address with a row it returns
\* the stored row and changes nothing. So a row of another user appears only
\* through addUser or bulkAddUsers.
C26_OnlyMainAdminIsAutoCreated ==
    /\ CallsGetOrCreateUser =>
          LET email == normalizeEmail(req.email)
          IN IF req.sql = "error" THEN users = req.found /\ resp.status = 500
             ELSE IF email \in DOMAIN req.found
             THEN /\ users = req.found
                  /\ resp = Success([kind |-> "user", user |-> Row(email, req.found)])
             ELSE IF email = MainAdmin
             THEN /\ users = (email :> "admin") @@ req.found
                  /\ resp = Success([kind |-> "user", user |-> [email |-> email, role |-> "admin"]])
             ELSE /\ users = req.found
                  /\ resp = Failure(500, UserNotFound)
    /\ req.op # "none" =>
          \A email \in DOMAIN users \ DOMAIN req.found :
              email = MainAdmin \/ req.op = "POST /api/users"

\* C26 witness: a stored row of a user who is
\* not the main admin is returned, from a table that also holds the main admin's
\* row with the role changed to user.
C26_Witness ==
    /\ CallsGetOrCreateUser
    /\ req.sql = "ok"
    /\ normalizeEmail(req.email) = AliceStored
    /\ AliceStored \in DOMAIN req.found
    /\ MainAdmin \in DOMAIN req.found
    /\ req.found[MainAdmin] = "user"
    /\ resp.status = 200

----------------------------------------------------------------------------
(* extractAllKeys called on a map, and each key-path resolved as its callers do *)

MaxKeys == 2

EmptyKey == <<>>
KeyNames == {Ka, Kb, Kab, EmptyKey}
KeyValues == {Str(T1), Str(T2), Obj(Ka :> Str(T1)), Obj(Kb :> Str(T2))}

\* The maps with at most MaxKeys top-level keys.
KeyMaps == UNION {[names -> KeyValues] : names \in {S \in SUBSET KeyNames : Cardinality(S) <= MaxKeys}}

KeysArgs(obj) == [fn |-> "extractAllKeys", obj |-> obj]

KeysInit ==
    /\ hArgs \in {KeysArgs(obj) : obj \in KeyMaps}
    /\ hpc = "ready"
    /\ hResult = <<>>

\* const parts = key.split('.'); let current = obj;
\* for (const part of parts) current = current[part];
resolve(obj, key) == Descend(Obj(obj), split(key))

\* extractAllKeys(obj), and what each key-path resolves to.
ExtractAllKeysReturns ==
    /\ hpc = "ready"
    /\ UNCHANGED notHlp
    /\ LET keys == extractAllKeys(hArgs.obj)
       IN hResult' = [keys |-> keys,
                      resolved |-> [n \in 1..Len(keys) |-> resolve(hArgs.obj, keys[n])]]
    /\ hpc' = "done"
    /\ UNCHANGED hArgs

KeysNext == ExtractAllKeysReturns

InitKeys ==
    KeysInit /\ GenIdle /\ ExtIdle /\ FilIdle /\ DedIdle /\ NewIdle /\ SrvInit
NextKeys == KeysNext
SpecKeys == InitKeys /\ [][NextKeys]_vars

----------------------------------------------------------------------------
(* Claims about key-paths *)

RECURSIVE LeafListFrom(_, _, _)
\* The leaf values of a map in the order extractAllKeys lists their key-paths.
LeafListFrom(obj, prefix, keys) ==
    IF keys = <<>> THEN <<>>
    ELSE LET key     == Head(keys)
             fullKey == IF prefix # <<>> THEN prefix \o <<DOT>> \o key ELSE key
         IN (IF obj[key].t = "obj"
             THEN LeafListFrom(obj[key].m, fullKey, SeqOf(DOMAIN obj[key].m))
             ELSE <<obj[key]>>)
            \o LeafListFrom(obj, prefix, Tail(keys))

LeafList(obj) == LeafListFrom(obj, <<>>, SeqOf(DOMAIN obj))

KeysDone == hpc = "done" /\ hArgs.fn = "extractAllKeys"

\* C29: every key-path that extractAllKeys returns, split at '.' and followed one
\* key per segment, reaches the leaf value it was produced from, without a
\* failure; and two leaves never get the same key-path.
C29_KeyPathsResolveToTheirLeaves ==
    KeysDone =>
        /\ Len(hResult.keys) = Len(LeafList(hArgs.obj))
        /\ \A n \in 1..Len(hResult.keys) : hResult.resolved[n] = LeafList(hArgs.obj)[n]
        /\ \A n, k \in 1..Len(hResult.keys) : n # k => hResult.keys[n] # hResult.keys[k]

----------------------------------------------------------------------------
(* estimateBatchTokens: the token estimate made before generation *)

MaxEstimateNodes == 3
MaxEstimateBatchSize == 2

RECURSIVE countIn(_, _)
\* (text.match(/[...]/g) || []).length
countIn(text, range) ==
    IF text = <<>> THEN 0
    ELSE (IF Head(text) \in range THEN 1 ELSE 0) + countIn(Tail(text), range)

\* Math.ceil(a / b) for a >= 0, b > 0
ceilDiv(a, b) == (a + b - 1) \div b

estimateTokens(text) ==
    LET japaneseChars  == countIn(text, JapaneseRange)
        otherChars     == jsLength(text) - japaneseChars
        japaneseTokens == ceilDiv(japaneseChars * 3, 2)
        otherTokens    == ceilDiv(otherChars, 4)
    IN japaneseTokens + otherTokens

SystemMessageTokens == 38
BasePromptTokens == 400

RECURSIVE sumOver(_, _)
sumOver(F(_), list) == IF list = <<>> THEN 0 ELSE F(Head(list)) + sumOver(F, Tail(list))

\* What one record adds to batchInputTokens.
nodeInputTokens(node) ==
    5 + estimateTokens(node.frameName)
      + estimateTokens(join(node.framePath, <<" ", ">", " ">>))
      + estimateTokens(node.text) + 15

\* What one record adds to batchOutputTokens.
nodeOutputTokens(node) == 3 + 2 + estimateTokens(node.text) + 1

batchInputTokensOf(batchNodes, contextSample) ==
    SystemMessageTokens + estimateTokens(contextSample) + BasePromptTokens
        + sumOver(nodeInputTokens, batchNodes)

batchOutputTokensOf(batchNodes) == 5 + sumOver(nodeOutputTokens, batchNodes)

\* Math.ceil(nodes.length * 0.08)
estimatedDuplicatesOf(list) == ceilDiv(Len(list) * 8, 100)

retryInputTokensOf(list, contextSample) ==
    LET estimatedDuplicates == estimatedDuplicatesOf(list)
    IN SystemMessageTokens + estimateTokens(contextSample) + BasePromptTokens + 50
         + ceilDiv(estimatedDuplicates * 3, 2) + estimatedDuplicates * 25

retryOutputTokensOf(list) == estimatedDuplicatesOf(list) * 6

RECURSIVE estimateLoop(_, _, _, _, _, _)
\* for (let i = 0; i < numBatches; i++) { ... }
estimateLoop(list, contextSample, size, n, numBatches, acc) ==
    IF n >= numBatches THEN acc
    ELSE LET batchNodes == slice(list, n * size, (n + 1) * size)
         IN estimateLoop(list, contextSample, size, n + 1, numBatches,
                [input   |-> acc.input + batchInputTokensOf(batchNodes, contextSample),
                 output  |-> acc.output + batchOutputTokensOf(batchNodes),
                 batches |-> Append(acc.batches, batchNodes)])

\* The regeneration allowance is added whatever the existing-key list is.
estimateBatchTokensAlwaysRetry(list, contextSample, existing, size) ==
    LET numBatches == ceilDiv(Len(list), size)
        loop == estimateLoop(list, contextSample, size, 0, numBatches,
                             [input |-> 0, output |-> 0, batches |-> <<>>])
        totalInputTokens  == loop.input + retryInputTokensOf(list, contextSample)
        totalOutputTokens == loop.output + retryOutputTokensOf(list)
    IN [inputTokens |-> totalInputTokens,
        estimatedOutputTokens |-> totalOutputTokens,
        totalEstimate |-> totalInputTokens + totalOutputTokens,
        batches |-> loop.batches]

\* The returned record; batches is a history field, the batchNodes of each round.
estimateBatchTokens(list, contextSample, existing, size) ==
    LET numBatches == ceilDiv(Len(list), size)
        loop == estimateLoop(list, contextSample, size, 0, numBatches,
                             [input |-> 0, output |-> 0, batches |-> <<>>])
        retry == estimatedDuplicatesOf(list) > 0 /\ Len(existing) > 0
        totalInputTokens  == loop.input
                             + (IF retry THEN retryInputTokensOf(list, contextSample) ELSE 0)
        totalOutputTokens == loop.output + (IF retry THEN retryOutputTokensOf(list) ELSE 0)
    IN [inputTokens |-> totalInputTokens,
        estimatedOutputTokens |-> totalOutputTokens,
        totalEstimate |-> totalInputTokens + totalOutputTokens,
        batches |-> loop.batches]

RJa == [text |-> <<"<kanji>", "<hiragana>", "!">>, frameName |-> <<"<katakana>", "1">>,
        framePath |-> << <<"L">>, <<"<katakana>", "1">> >>, nodeId |-> <<"1", ":", "5">>]
EstimateRecords == {R1, RJa, REmptyText}
EstimateSamples == {<<>>, <<"{", "}">>, <<"{", "k", ":", "<kanji>", "<kanji>", "}">>}
EstimateKeyLists == {<<>>, <<Ka>>, <<Ka, Kb>>}

EstimateArgs(list, contextSample, existing, size) ==
    [fn |-> "estimateBatchTokens", nodes |-> list, contextSample |-> contextSample,
     existingKeys |-> existing, batchSize |-> size]

EstimateInit ==
    /\ hArgs \in {EstimateArgs(list, sample, keys, size) :
                    list \in BoundedSeqs(EstimateRecords, MaxEstimateNodes),
                    sample \in EstimateSamples,
                    keys \in EstimateKeyLists,
                    size \in 1..MaxEstimateBatchSize}
    /\ hpc = "ready"
    /\ hResult = <<>>

EstimateBatchTokensReturns ==
    /\ hpc = "ready"
    /\ UNCHANGED notHlp
    /\ hResult' = estimateBatchTokens(hArgs.nodes, hArgs.contextSample,
                                      hArgs.existingKeys, hArgs.batchSize)
    /\ hpc' = "done"
    /\ UNCHANGED hArgs

EstimateNext == EstimateBatchTokensReturns

InitEstimate ==
    EstimateInit /\ GenIdle /\ ExtIdle /\ FilIdle /\ DedIdle /\ NewIdle /\ SrvInit
NextEstimate == EstimateNext
SpecEstimate == InitEstimate /\ [][NextEstimate]_vars

----------------------------------------------------------------------------
(* Claims about the token estimate *)

RECURSIVE firstPassPartition(_, _, _)
\* for (let i = 0; i < nodes.length; i += batchSize) batches.push(nodes.slice(i, i + batchSize))
firstPassPartition(list, size, from) ==
    IF from >= Len(list) THEN <<>>
    ELSE <<slice(list, from, from + size)>> \o firstPassPartition(list, size, from + size)

EstimateDone == hpc = "done" /\ hArgs.fn = "estimateBatchTokens"

AllowanceDue == Len(hArgs.nodes) > 0 /\ Len(hArgs.existingKeys) > 0

\* C30: the system and template overheads and the sample's tokens are counted
\* once for each of the ceil(n / batchSize) batches, which are the batches of the
\* generator's first pass; the regeneration allowance is in the estimate exactly
\* when there are records and existing keys; and totalEstimate is the sum of
\* inputTokens and estimatedOutputTokens.
C30_EstimateChargesOverheadOncePerBatch ==
    EstimateDone =>
        LET numBatches == ceilDiv(Len(hArgs.nodes), hArgs.batchSize)
            perBatch   == SystemMessageTokens + estimateTokens(hArgs.contextSample)
                          + BasePromptTokens
        IN /\ hResult.batches = firstPassPartition(hArgs.nodes, hArgs.batchSize, 0)
           /\ Len(hResult.batches) = numBatches
           /\ hResult.inputTokens
                = numBatches * perBatch + sumOver(nodeInputTokens, hArgs.nodes)
                  + (IF AllowanceDue
                     THEN retryInputTokensOf(hArgs.nodes, hArgs.contextSample) ELSE 0)
           /\ hResult.estimatedOutputTokens
                = numBatches * 5 + sumOver(nodeOutputTokens, hArgs.nodes)
                  + (IF AllowanceDue THEN retryOutputTokensOf(hArgs.nodes) ELSE 0)
           /\ hResult.totalEstimate = hResult.inputTokens + hResult.estimatedOutputTokens

\* An estimate over two batches with a Japanese sample, with the allowance.
C30_Witness ==
    /\ EstimateDone
    /\ Len(hResult.batches) = 2
    /\ AllowanceDue
    /\ estimateTokens(hArgs.contextSample) > 1
    /\ hResult.inputTokens > 2 * (SystemMessageTokens + BasePromptTokens)

----------------------------------------------------------------------------
(* Claims about the /api/figma response *)

FigmaSucceeded == req.op = "POST /api/figma" /\ resp.status = 200

\* C27: a successful /api/figma response has totalTextNodes >= japaneseNodes >=
\* filteredNodes >= newNodes; newTexts is a sub-list of the extracted records in
\* their order and newNodes is its length; and with enableSmartFilters false,
\* filteredNodes equals japaneseNodes and every filter count is zero.
C27_FigmaCountsDescend ==
    FigmaSucceeded =>
        /\ resp.data.totalTextNodes = Len(resp.data.allTextNodes)
        /\ resp.data.totalTextNodes >= resp.data.japaneseNodes
        /\ resp.data.japaneseNodes >= resp.data.filteredNodes
        /\ resp.data.filteredNodes >= resp.data.newNodes
        /\ IsSubSeq(resp.data.newTexts, resp.data.allTextNodes)
        /\ resp.data.newNodes = Len(resp.data.newTexts)
        /\ req.body.enableSmartFilters = "false" =>
              /\ resp.data.filteredNodes = resp.data.japaneseNodes
              /\ resp.data.filterStats = NoFilterStats

\* The smart filters are off, some records are not Japanese and one is known.
C27_Witness ==
    /\ FigmaSucceeded
    /\ req.body.enableSmartFilters = "false"
    /\ resp.data.totalTextNodes > resp.data.japaneseNodes
    /\ resp.data.japaneseNodes > 1
    /\ resp.data.filteredNodes > resp.data.newNodes
    /\ resp.data.newNodes > 0

====
